---- MODULE Spec2Model ----
(***************************************************************************)
(* Model of the trassenger daemon: the delivery engine (daemon/src/        *)
(* polling.rs), the control channel (daemon/src/ipc.rs), the message store *)
(* (storage.rs) and the mailbox relay as seen through mailbox.rs.          *)
(***************************************************************************)
EXTENDS Integers, Sequences, FiniteSets, TLC

\* ---------------------------------------------------------------- bounds
MaxEvents == 2       \* posts by other parties, connections and commands in one run
MaxFaults == 1       \* failed I/O operations (relay, store, stream) in one run
MaxCommands == 2     \* commands on the one connection of a session run (SessionSpec)
MaxResets == 1       \* ResetPollingInterval commands of a mode run (ModeSpec)

\* ------------------------------------------------------ program constants
FAST_MIN == 5
FAST_MAX == 60
slow_interval == 60
INITIAL_IPC_INTERVAL == 60

\* connections and SendMessage commands are numbered in the order they arrive
SessionIds == 1..MaxEvents
SendIds == 1..MaxEvents
\* relay-assigned blob ids: 1..MaxEvents for what other parties post,
\* MaxEvents + i for the envelope the i-th SendMessage posts
BlobIds == 1..(2 * MaxEvents)
NoSession == 0

Me == "me"

\* ------------------------------------------------------- keys and queue ids
\* Public keys as their hex text. "" is the text used when no identity is
\* loaded, "zz" is text that is not hex.
MyEncryptPkHex == "c0"
MySignPkHex == "c9"
HexKeys == {"a1", "b1", "c0", "d1"}

\* the position of a hex text in the lexicographic order of strings
HexRank(h) ==
    CASE h = "" -> 0
      [] h = "a1" -> 1
      [] h = "a2" -> 2
      [] h = "b1" -> 3
      [] h = "b2" -> 4
      [] h = "c0" -> 5
      [] h = "c9" -> 6
      [] h = "d1" -> 7
      [] h = "d2" -> 8

\* crypto::from_hex succeeds
IsHex(h) == h \in HexKeys \cup {"", "a2", "b2", "c9", "d2"}

\* an id made of the two texts in the order they are given
generate_conversation_queue_id_unsorted(pk1_hex, pk2_hex) == pk1_hex \o pk2_hex

\* crypto::generate_conversation_queue_id: the two texts in lexicographic
\* order, concatenated and hashed; the hash is kept symbolic, as the text it
\* is taken of, which makes it collision-free
generate_conversation_queue_id(pk1_hex, pk2_hex) ==
    IF HexRank(pk1_hex) < HexRank(pk2_hex) THEN pk1_hex \o pk2_hex ELSE pk2_hex \o pk1_hex

Peer1 ==
    [name |-> "alice", encrypt_pk |-> "a1", sign_pk |-> "a2",
     queue_id |-> generate_conversation_queue_id(MyEncryptPkHex, "a1")]

Peer2 ==
    [name |-> "bob", encrypt_pk |-> "b1", sign_pk |-> "b2",
     queue_id |-> generate_conversation_queue_id(MyEncryptPkHex, "b1")]

\* the queues of the peers the registry starts with
PeerQueues == {Peer1.queue_id, Peer2.queue_id}

\* every queue id the agent can derive
QueueIds == {generate_conversation_queue_id(my, pk) : my \in {"", MyEncryptPkHex}, pk \in HexKeys}

Min(a, b) == IF a < b THEN a ELSE b

\* ------------------------------------------------------------ byte strings
\* A byte string is the sequence of its fields. A field has a size in bytes
\* and is a public or secret key ("pk", "sk"; owner holds the hex text of the
\* public key), a signature (owner: the hex text of the public key of the
\* signing key, over: the bytes signed), a nonce, a sealed box (owner: the hex
\* texts of the two public keys of the key exchange, in order, plain: what
\* was sealed, size: the 16 bytes of its tag) or bytes of no meaning ("junk"). A string of
\* 32 bytes or more starts with a field of 32 bytes, a signed message with
\* one of 64 and a ciphertext with one of 24, so that the slices the code
\* takes fall on field boundaries.
NONCE_SIZE == 24
SIGNATURE_SIZE == 64

\* serialized JSON: json tells whether the bytes parse, value is the object
NoPlain == [json |-> FALSE, value |-> [none |-> "none"]]

Field(size, kind, owner, over, plain) ==
    [size |-> size, kind |-> kind, owner |-> owner, over |-> over, plain |-> plain]

Junk(size) == Field(size, "junk", <<>>, <<>>, NoPlain)

RECURSIVE ByteLen(_)
ByteLen(bytes) == IF bytes = <<>> THEN 0 ELSE Head(bytes).size + ByteLen(Tail(bytes))

\* Result<T, String>
Ok(val) == [val |-> val, ok |-> TRUE, why |-> "none"]

Err(why) == [val |-> <<>>, ok |-> FALSE, why |-> why]

PublicKey(hex) == <<Field(32, "pk", <<hex>>, <<>>, NoPlain)>>

SecretKey(hex) == <<Field(32, "sk", <<hex>>, <<>>, NoPlain)>>

\* the identities: the local one, the one of Peer1 and a third party
Identities == {"me", "peer", "other"}

EncryptPkHex(id) ==
    CASE id = "me" -> MyEncryptPkHex
      [] id = "peer" -> "a1"
      [] id = "other" -> "d1"

SignPkHex(id) ==
    CASE id = "me" -> MySignPkHex
      [] id = "peer" -> "a2"
      [] id = "other" -> "d2"

\* crypto::Keypair, as generate_keypair makes it
Keypair(id) ==
    [encrypt_pk |-> PublicKey(EncryptPkHex(id)), sign_pk |-> PublicKey(SignPkHex(id)),
     encrypt_sk |-> SecretKey(EncryptPkHex(id)), sign_sk |-> SecretKey(SignPkHex(id))]

\* crypto::to_hex, of a key
to_hex(bytes) == IF bytes = <<>> THEN "" ELSE Head(bytes).owner[1]

\* crypto::from_hex: the empty text is hex, of no bytes
from_hex(hex_str) ==
    IF ~IsHex(hex_str) THEN Err("Invalid hex")
    ELSE IF hex_str = "" THEN Ok(<<>>)
    ELSE Ok(PublicKey(hex_str))

\* X25519: the shared secret of a secret key and a public key depends on the
\* two key pairs only, not on which side computes it
diffie_hellman(sk, pk) ==
    IF HexRank(Head(sk).owner[1]) < HexRank(Head(pk).owner[1])
    THEN Head(sk).owner \o Head(pk).owner
    ELSE Head(pk).owner \o Head(sk).owner

\* crypto::encrypt_message: nonce, then the box under the shared secret
encrypt_message(plaintext, recipient_pk, sender_sk) ==
    IF ByteLen(recipient_pk) # 32 THEN Err("Invalid recipient public key length")
    ELSE IF ByteLen(sender_sk) # 32 THEN Err("Invalid sender secret key length")
    ELSE Ok(<<Field(NONCE_SIZE, "nonce", <<>>, <<>>, NoPlain),
              Field(16, "box", diffie_hellman(sender_sk, recipient_pk), <<>>, plaintext)>>)

\* crypto::decrypt_message: the box opens under the nonce it was sealed with
\* and the shared secret of the two key pairs
decrypt_message(ciphertext, sender_pk, recipient_sk) ==
    IF ByteLen(ciphertext) < NONCE_SIZE THEN Err("Invalid ciphertext: too short")
    ELSE IF ByteLen(sender_pk) # 32 THEN Err("Invalid sender public key length")
    ELSE IF ByteLen(recipient_sk) # 32 THEN Err("Invalid recipient secret key length")
    ELSE LET nonce == Head(ciphertext)
             sealed == Tail(ciphertext)
         IN IF /\ nonce.kind = "nonce"
               /\ Len(sealed) = 1
               /\ Head(sealed).kind = "box"
               /\ Head(sealed).owner = diffie_hellman(recipient_sk, sender_pk)
            THEN Ok(Head(sealed).plain)
            ELSE Err("Decryption failed")

\* crypto::sign_message: signature, then the message
sign_message(message, sign_sk) ==
    IF ByteLen(sign_sk) # 32 THEN Err("Invalid signing secret key length")
    ELSE Ok(<<Field(SIGNATURE_SIZE, "signature", Head(sign_sk).owner, message, NoPlain)>> \o message)

\* a verification that takes the signature for granted
verify_signature_unchecked(signed_message, sign_pk) ==
    IF ByteLen(signed_message) < SIGNATURE_SIZE THEN Err("Invalid signed message: too short")
    ELSE IF ByteLen(sign_pk) # 32 THEN Err("Invalid signing public key length")
    ELSE Ok(Tail(signed_message))

\* crypto::verify_signature: the message, if the signature is valid
verify_signature(signed_message, sign_pk) ==
    IF ByteLen(signed_message) < SIGNATURE_SIZE THEN Err("Invalid signed message: too short")
    ELSE IF ByteLen(sign_pk) # 32 THEN Err("Invalid signing public key length")
    ELSE LET signature == Head(signed_message)
             message == Tail(signed_message)
         IN IF /\ signature.kind = "signature"
               /\ signature.owner = Head(sign_pk).owner
               /\ signature.over = message
            THEN Ok(message)
            ELSE Err("Signature verification failed")

\* general_purpose::STANDARD.encode and decode
Base64Encode(bytes) == [bytes |-> bytes, b64 |-> TRUE]

\* a decoder that takes any text for base64
Base64DecodeAny(data) == Ok(data.bytes)

Base64Decode(data) == IF data.b64 THEN Ok(data.bytes) ELSE Err("base64 decode")

\* serde_json::to_vec and from_slice
ToVec(value) == [json |-> TRUE, value |-> value]

FromSlice(plain) == IF plain.json THEN Ok(plain.value) ELSE Err("JSON parse")

\* the payload handle_send_message builds (the time of sending is "now")
Payload(plaintext, sender_id) ==
    [sender_id |-> sender_id, type |-> "text", content |-> plaintext, timestamp |-> "now"]

\* ------------------------------------------------------------- envelopes
\* a send path that seals the payload for the sender's own key
final_message_to_self(keypair, recipient_encrypt_pk, payload_bytes) ==
    LET encrypted == encrypt_message(payload_bytes, keypair.encrypt_pk, keypair.encrypt_sk)
    IN IF ~encrypted.ok THEN Err("Encrypt")
       ELSE LET signed == sign_message(keypair.encrypt_pk \o encrypted.val, keypair.sign_sk)
            IN IF ~signed.ok THEN Err("Sign")
               ELSE Ok(Base64Encode(keypair.sign_pk \o signed.val))

\* handle_send_message, from the payload bytes to the encoded envelope:
\* sign_pk || signature || encrypt_pk || nonce || ciphertext
final_message(keypair, recipient_encrypt_pk, payload_bytes) ==
    LET encrypted == encrypt_message(payload_bytes, recipient_encrypt_pk, keypair.encrypt_sk)
    IN IF ~encrypted.ok THEN Err("Encrypt")
       ELSE LET signed == sign_message(keypair.encrypt_pk \o encrypted.val, keypair.sign_sk)
            IN IF ~signed.ok THEN Err("Sign")
               ELSE Ok(Base64Encode(keypair.sign_pk \o signed.val))

\* handle_send_message, from its arguments to the encoded envelope
encoded(kp, peer_encrypt_pk, plaintext) ==
    LET recipient_encrypt_pk == from_hex(peer_encrypt_pk)
    IN IF ~recipient_encrypt_pk.ok THEN Err("Invalid peer_encrypt_pk")
       ELSE final_message(Keypair(kp), recipient_encrypt_pk.val,
                          ToVec(Payload(plaintext, to_hex(Keypair(kp).encrypt_pk))))

\* the bytes with bits of their k-th field changed: the field keeps its size
\* and is no longer the key, signature, nonce or box it was
FlipBits(bytes, k) == [bytes EXCEPT ![k] = Junk(@.size)]

\* the envelope with bits of the k-th field of its bytes changed
Tampered(data, k) == [data EXCEPT !.bytes = FlipBits(@, k)]

\* the envelope with its signature overwritten
Forged(data) == [data EXCEPT !.bytes = <<data.bytes[1], Junk(SIGNATURE_SIZE)>> \o Tail(Tail(data.bytes))]

\* what a peer's send path posts for the local identity
EnvValid == encoded("peer", MyEncryptPkHex, "hi").val

\* what the local send path posts for the peer
EnvOwn == encoded("me", "a1", "hi").val

\* starts with the local sign_pk, the signature does not verify
EnvOwnForged == Forged(encoded("me", MyEncryptPkHex, "hi").val)

EnvBadSig == Forged(EnvValid)

\* sealed for a third party
EnvForeign == encoded("peer", "d1", "hi").val

\* sealed for the local identity, the plaintext is not JSON
EnvGarbage == final_message(Keypair("peer"), Keypair("me").encrypt_pk, NoPlain).val

EnvShort == Base64Encode(<<Junk(8)>>)

\* the fields of an envelope: sign_pk, signature, encrypt_pk, nonce, box
SignatureField == 2
NonceField == 4
BoxField == 5

\* a valid envelope with bits of its ciphertext or tag changed
EnvBadBox == Tampered(EnvValid, BoxField)

\* a valid envelope whose text is not base64
EnvNotBase64 == [EnvValid EXCEPT !.b64 = FALSE]

\* the envelopes process_message fails on, one for each of its failures
RejectedEnvs == {EnvNotBase64, EnvShort, EnvBadSig, EnvBadBox, EnvForeign, EnvGarbage}

\* what other parties post in a run about rejected blobs
RejectPosts == {<<Peer1.queue_id, env>> : env \in RejectedEnvs \cup {EnvValid}}

\* what other parties post, and where (the local send task posts its own)
Posts ==
    {<<Peer1.queue_id, EnvValid>>, <<Peer2.queue_id, EnvValid>>,
     <<Peer1.queue_id, EnvOwnForged>>, <<Peer2.queue_id, EnvBadSig>>,
     <<Peer1.queue_id, EnvBadBox>>}

\* --------------------------------------------------------- process_message
\* the payload has the string (or, for timestamp, the number) the code asks for
Has(payload, field) == field \in DOMAIN payload

InboundMessage(id, queue_id, payload) ==
    [queue_id |-> queue_id, id |-> <<"blob", id>>, content |-> payload.content,
     sender |-> payload.sender_id, status |-> "delivered", is_outbound |-> FALSE]

\* process_message from the verified bytes on
process_unsigned(blob, queue_id, keypair, unsigned) ==
    IF ByteLen(unsigned) < 32 THEN [why |-> "Unsigned message too short", tag |-> "err"]
    ELSE LET sender_encrypt_pk == <<Head(unsigned)>>
             ciphertext == Tail(unsigned)
             plaintext == decrypt_message(ciphertext, sender_encrypt_pk, Keypair(keypair).encrypt_sk)
         IN IF ~plaintext.ok THEN [why |-> plaintext.why, tag |-> "err"]
            ELSE LET payload == FromSlice(plaintext.val)
                 IN IF ~payload.ok THEN [why |-> payload.why, tag |-> "err"]
                    ELSE IF ~Has(payload.val, "content") THEN [why |-> "Missing content", tag |-> "err"]
                    ELSE IF ~Has(payload.val, "timestamp") THEN [why |-> "Missing timestamp", tag |-> "err"]
                    ELSE IF ~Has(payload.val, "sender_id") THEN [why |-> "Missing sender_id", tag |-> "err"]
                    ELSE [tag |-> "ok", msg |-> InboundMessage(blob.id, queue_id, payload.val)]

process_message_sig_first(blob, queue_id, keypair) ==
    LET full_message == Base64Decode(blob.env)
    IN IF ~full_message.ok THEN [why |-> full_message.why, tag |-> "err"]
       ELSE IF ByteLen(full_message.val) < 32 THEN [why |-> "Message too short", tag |-> "err"]
       ELSE LET sender_sign_pk == <<Head(full_message.val)>>
                signed_message == Tail(full_message.val)
                unsigned == verify_signature(signed_message, sender_sign_pk)
            IN IF ~unsigned.ok THEN [why |-> unsigned.why, tag |-> "err"]
               ELSE IF sender_sign_pk = Keypair(keypair).sign_pk
                    THEN [why |-> "Skipping own message", tag |-> "own"]
               ELSE process_unsigned(blob, queue_id, keypair, unsigned.val)

process_message(blob, queue_id, keypair) ==
    LET full_message == Base64Decode(blob.env)
    IN IF ~full_message.ok THEN [why |-> full_message.why, tag |-> "err"]
       ELSE IF ByteLen(full_message.val) < 32 THEN [why |-> "Message too short", tag |-> "err"]
       ELSE LET sender_sign_pk == <<Head(full_message.val)>>
                signed_message == Tail(full_message.val)
            IN IF sender_sign_pk = Keypair(keypair).sign_pk
               THEN [why |-> "Skipping own message", tag |-> "own"]
               ELSE LET unsigned == verify_signature(signed_message, sender_sign_pk)
                    IN IF ~unsigned.ok THEN [why |-> unsigned.why, tag |-> "err"]
                       ELSE process_unsigned(blob, queue_id, keypair, unsigned.val)

\* ------------------------------------------------------------ save_message
\* The messages table as the sequence of its rows; INSERT OR REPLACE on the
\* primary key id removes the row with that id, if any, and inserts the new one.
save_message_insert(rows, message) == Append(rows, message)

save_message(rows, message) ==
    Append(SelectSeq(rows, LAMBDA r : r.id # message.id), message)

RowsWithId(rows, id) == SelectSeq(rows, LAMBDA r : r.id = id)

\* "UPDATE messages SET status = ?1 WHERE id = ?2"
update_status(rows, id, status) ==
    [k \in DOMAIN rows |-> IF rows[k].id = id THEN [rows[k] EXCEPT !.status = status] ELSE rows[k]]

\* -------------------------------------------------------- AdaptiveInterval
\* a reset that leaves the interval as it is
reset_keep(current) == current

reset(current) == FAST_MIN

\* a doubling without the cap
\* an increase that leaves the interval as it is
increase_hold(current) == current

increase_uncapped(current) == current * 2

increase(current) == Min(current * 2, FAST_MAX)

\* ------------------------------------------------------- mutexes
\* The threads of the daemon as the statements they execute, to follow the
\* guards of its mutexes: the IpcState mutex, the sender-slot mutex
\* (TuiEventSender) and the DaemonState mutex of the main thread.
StateLock == "ipc_state"

SenderLock == "tui_sender"

DaemonLock == "daemon_state"

Locks == {StateLock, SenderLock, DaemonLock}

Threads == {"poll", "accept", "conn", "send", "main"}

\* a statement: lock and unlock of a mutex; field: reads and writes of
\* fields; send: a send on an unbounded channel; relay: a call of the
\* MailboxClient; io: file or database access, with the computing around it;
\* await: a wait for a timer, a stream or a listener; tray: calls of the tray
\* icon. Consecutive statements that touch no mutex and no relay are one.
St(op, lock) == [op |-> op, lock |-> lock]

Do(op) == St(op, "none")

\* { let guard = mutex.lock(); body } : the guard is dropped at the end of
\* the block
Locked(lock, body) == <<St("lock", lock)>> \o body \o <<St("unlock", lock)>>

\* a push whose guard outlives the call
PushToSessionHeld == <<St("lock", SenderLock), Do("send")>>

\* push_new_message, push_polling_interval
PushToSession == Locked(SenderLock, <<Do("send")>>)

\* polling_loop up to the loop: load_keypair, store the keypair, load_config
PollStartup == <<Do("io")>> \o Locked(StateLock, <<Do("field")>>) \o <<Do("io")>>

\* poll_all_queues with one blob: load_peers, fetch, process_message, save,
\* push_new_message, delete
PollDeliver ==
    <<Do("io"), Do("relay"), Do("io")>> \o PushToSession \o <<Do("relay")>>

\* poll_all_queues with an empty queue: load_peers, fetch
PollEmpty == <<Do("io"), Do("relay")>>

\* the end of a cycle in idle-interactive mode, and the sleep
IdleEnd == PushToSession \o <<Do("await")>>

\* the end of a cycle in background mode: UnreadCount to the main thread,
\* send_notification, and the sleep
BackgroundEnd == <<Do("send"), Do("await")>>

\* a signal ended the sleep: push_polling_interval, UnreadCount(0)
PollWake == PushToSession \o <<Do("send")>>

PollPaths ==
    {PollDeliver \o IdleEnd, PollEmpty \o IdleEnd, PollDeliver \o BackgroundEnd,
     PollEmpty \o <<Do("await")>>, PollWake}

\* ipc_accept_loop: accept, signal TuiConnected, create the channel, register
\* the sender, send the initial PollingInterval, spawn the connection task
AcceptPath ==
    <<Do("await")>> \o Locked(StateLock, <<Do("send")>>) \o <<Do("field")>>
        \o Locked(SenderLock, <<Do("field")>>) \o Locked(StateLock, <<Do("field"), Do("send")>>)
        \o <<Do("io")>>

\* handle_send_message: clone keypair and server_url, seal, save, spawn the
\* post task; then the reply is written
ConnSendMessage == Locked(StateLock, <<Do("field")>>) \o <<Do("io")>>

\* ResetPollingInterval: forward the signal
ConnReset == Locked(StateLock, <<Do("send")>>)

\* handle_import_contact: parse, read the keypair, load_peers, save_peer
ConnImport == <<Do("io")>> \o Locked(StateLock, <<Do("field")>>) \o <<Do("io")>>

\* handle_export_contact: clone the keypair, write the file
ConnExport == Locked(StateLock, <<Do("field")>>) \o <<Do("io")>>

\* the connection task after its loop: clear the slot, signal TuiDisconnected
ConnTeardown == Locked(SenderLock, <<Do("field")>>) \o Locked(StateLock, <<Do("send")>>)

ConnPaths == {ConnSendMessage, ConnReset, ConnImport, ConnExport, ConnTeardown}

\* the task handle_send_message spawns: post, then update the status
SendTaskPath == <<Do("relay"), Do("io")>>

\* the event loop of the main thread: take UnreadCount, store it, set the
\* tray icon
MainUnread == Locked(DaemonLock, <<Do("field")>>) \o <<Do("tray")>>

\* the event loop of the main thread: is_tui_connected, then reset the badge
MainReset ==
    Locked(SenderLock, <<Do("field")>>)
        \o Locked(DaemonLock, <<Do("field"), Do("tray")>>)

\* what a thread executes next when it has finished what it was executing
Paths(t) ==
    CASE t = "poll" -> PollPaths
      [] t = "accept" -> {AcceptPath}
      [] t = "conn" -> ConnPaths
      [] t = "send" -> {SendTaskPath}
      [] OTHER -> {MainUnread, MainReset}

\* what a thread executes first
InitialCode(t) == IF t = "poll" THEN PollStartup ELSE <<>>

\* ------------------------------------------------------------------ state
VARIABLES
    keypair,        \* IpcState.keypair: "none" until the poll thread stored it
    current_interval_secs,  \* IpcState.current_interval_secs
    registry,       \* peers.json: sequence of Peer
    messages,       \* messages table: sequence of rows
    disk,           \* config.json and the contact file ExportContact wrote
    relay,          \* mailbox relay: queue id -> sequence of blobs
    slot,           \* TuiEventSender: NoSession or the session whose sender it holds
    signals,        \* IpcSignal channel, IPC -> poll loop
    pollPc,         \* position of polling_loop
    tui_connected, fast_interval, unread, sleep_secs,   \* locals of polling_loop
    cyclePeers,     \* poll_all_queues: peers still to poll, head = current
    total,          \* poll_all_queues: total
    batch,          \* poll_queue: blobs still to process, head = current
    count,          \* poll_queue: count
    acceptPc,       \* position of ipc_accept_loop
    acceptSess,     \* session being accepted
    sessPc,         \* per session: position of the spawned connection task
    evq,            \* per session: event channel (event_tx -> event_rx)
    replyq,         \* per session: events of handle_command still to write
    sendTask,       \* per SendMessage: state of the detached post task
    blobLog,        \* history, per blob id: what the poll loop did with it
    nposts,         \* blobs other parties have posted so far
    nsess,          \* connections accepted so far
    nsends,         \* SendMessage commands received so far
    nresets,        \* ResetPollingInterval commands received so far
    tx,             \* history: the UnreadCount values sent to the main thread
    notifications,  \* history: the counts send_notification was called with
    lockPc,         \* per thread: the statements it is executing and its position in them
    held,           \* per mutex: the thread that holds its guard, or "none"
    server_url,     \* IpcState.server_url
    client_url,     \* polling_loop: the URL of its MailboxClient, "none" until it is built
    cmdLog,         \* history: the lines received so far, [sess, type] each
    faults          \* failed I/O operations so far

pollVars == <<pollPc, tui_connected, fast_interval, unread, sleep_secs, cyclePeers, total, batch, count>>
ipcVars == <<acceptPc, acceptSess, sessPc, evq, replyq>>
storeVars == <<keypair, current_interval_secs, registry, messages, disk>>
events == <<nposts, nsess, nsends, nresets, cmdLog>>
budget == <<events, faults>>
lockVars == <<lockPc, held>>
urlVars == <<server_url, client_url>>
mainVars == <<tx, notifications, lockVars, urlVars>>
vars == <<pollVars, ipcVars, storeVars, sendTask, relay, slot, signals, blobLog, budget, mainVars>>

\* storage::load_config: the server_url of the config file
load_config(d) == d.config

NoEnvelope == [bytes |-> <<>>, b64 |-> FALSE]

\* queue, env: where and what was posted; opened: process_message ran on it;
\* saved: times its Message was saved; pushed: the sessions NewMessage was
\* queued to, in order; delreq: times its delete was asked of the relay
NoLog == [env |-> NoEnvelope, queue |-> "none", opened |-> FALSE, saved |-> 0, pushed |-> <<>>, delreq |-> 0]

LocalId(i) == <<"local", i>>

Init ==
    /\ keypair = "none"
    /\ current_interval_secs = INITIAL_IPC_INTERVAL
    /\ registry = <<Peer1, Peer2>>
    /\ messages = <<>>
    /\ disk = [config |-> "default", exported |-> "none"]
    /\ relay = [q \in QueueIds |-> <<>>]
    /\ slot = NoSession
    /\ signals = <<>>
    /\ pollPc = "load_keypair"
    /\ tui_connected = FALSE
    /\ fast_interval = FAST_MIN
    /\ unread = 0
    /\ sleep_secs = 0
    /\ cyclePeers = <<>>
    /\ total = 0
    /\ batch = <<>>
    /\ count = 0
    /\ acceptPc = "accept"
    /\ acceptSess = NoSession
    /\ sessPc = [s \in SessionIds |-> "none"]
    /\ evq = [s \in SessionIds |-> <<>>]
    /\ replyq = [s \in SessionIds |-> <<>>]
    /\ sendTask = [i \in SendIds |-> [queue_id |-> Peer1.queue_id, encoded |-> NoEnvelope, st |-> "none"]]
    /\ blobLog = [b \in BlobIds |-> NoLog]
    /\ nposts = 0
    /\ nsess = 0
    /\ nsends = 0
    /\ nresets = 0
    /\ cmdLog = <<>>
    /\ faults = 0
    /\ tx = <<>>
    /\ notifications = <<>>
    /\ lockPc = [t \in Threads |-> [code |-> InitialCode(t), idx |-> 1]]
    /\ held = [l \in Locks |-> "none"]
    /\ server_url = load_config([config |-> "default", exported |-> "none"])
    /\ client_url = "none"

\* ---------------------------------------------------------------- events
NewMessage(message) == [message |-> message, type |-> "NewMessage"]

PollingInterval(secs) == [type |-> "PollingInterval", secs |-> secs]

MessageSent == [type |-> "MessageSent"]

Error(why) == [message |-> why, type |-> "Error"]

Messages(queue_id, msgs) == [queue_id |-> queue_id, type |-> "Messages", messages |-> msgs]

Peers(peers) == [type |-> "Peers", peers |-> peers]

ContactImported(peer) == [peer |-> peer, type |-> "ContactImported"]

ContactExported(json) == [json |-> json, type |-> "ContactExported"]

\* tx.send on the sender held in the slot, if any
SendToSlot(q, sl, ev) ==
    IF sl = NoSession THEN q ELSE [q EXCEPT ![sl] = Append(@, ev)]

push_new_message(q, sl, message) == SendToSlot(q, sl, NewMessage(message))

\* a push that sends nothing
push_polling_interval_dropped(q, sl, secs) == q

push_polling_interval(q, sl, secs) == SendToSlot(q, sl, PollingInterval(secs))

\* ------------------------------------------------------------ run budgets
\* an I/O operation that succeeds (ok) or, while the budget lasts, fails
Faulty(ok) ==
    /\ ok \/ faults < MaxFaults
    /\ faults' = IF ok THEN faults ELSE faults + 1

\* a post, a connection or a command is still within the run's budget
NewEvent == nposts + nsess + Len(cmdLog) < MaxEvents

\* a session run: one connection, no posts, and up to MaxCommands commands on it
NewCommand == nposts + nsess < MaxEvents /\ Len(cmdLog) < MaxCommands

\* a line of the given type arrived on session s
Received(s, type) == cmdLog' = Append(cmdLog, [type |-> type, sess |-> s])

\* ------------------------------------------------------------ polling_loop
\* a loop that polls although it has no identity
AfterLoadFailurePoll == "load_peers"

\* where the loop goes when load_keypair failed: polling_loop returns
AfterLoadFailure == "disabled"

\* storage::load_keypair, then the keypair is stored in the IPC state, the
\* config is loaded and the MailboxClient is built with its server_url
LoadKeypair(ok) ==
    /\ pollPc = "load_keypair"
    /\ IF ok
       THEN /\ keypair' = Me
            /\ pollPc' = "load_peers"
       ELSE /\ keypair' = keypair
            /\ pollPc' = AfterLoadFailure
    /\ client_url' = IF ok THEN load_config(disk) ELSE client_url
    /\ UNCHANGED <<tui_connected, fast_interval, unread, sleep_secs, cyclePeers, total, batch, count>>
    /\ UNCHANGED <<ipcVars, sendTask, relay, slot, signals, blobLog, budget>>
    /\ UNCHANGED <<current_interval_secs, registry, messages, disk>>
    /\ UNCHANGED <<tx, notifications, lockVars, server_url>>

\* poll_all_queues: storage::load_peers; an error ends the cycle with total 0
LoadPeers(ok) ==
    /\ pollPc = "load_peers"
    /\ Faulty(ok)
    /\ total' = 0
    /\ batch' = <<>>
    /\ count' = 0
    /\ IF ok /\ registry # <<>>
       THEN /\ cyclePeers' = registry
            /\ pollPc' = "fetch"
       ELSE /\ cyclePeers' = <<>>
            /\ pollPc' = "end_cycle"
    /\ UNCHANGED <<tui_connected, fast_interval, unread, sleep_secs>>
    /\ UNCHANGED <<ipcVars, storeVars, sendTask, relay, slot, signals, blobLog, events>>
    /\ UNCHANGED mainVars

\* a loop over the peers that stops after the first peer
NextPeerStop(cnt) ==
    /\ total' = total + cnt
    /\ cyclePeers' = Tail(cyclePeers)
    /\ batch' = <<>>
    /\ count' = 0
    /\ pollPc' = "end_cycle"

\* poll_queue returned (Ok(cnt), or Err with cnt = 0): next peer or end of cycle
NextPeer(cnt) ==
    /\ total' = total + cnt
    /\ cyclePeers' = Tail(cyclePeers)
    /\ batch' = <<>>
    /\ count' = 0
    /\ pollPc' = IF Tail(cyclePeers) = <<>> THEN "end_cycle" ELSE "fetch"

\* poll_queue: the for loop moves to the next blob, or returns Ok(cnt)
NextBlob(cnt) ==
    IF Tail(batch) = <<>>
    THEN NextPeer(cnt)
    ELSE /\ batch' = Tail(batch)
         /\ count' = cnt
         /\ UNCHANGED <<total, cyclePeers>>
         /\ pollPc' = "open"

\* a fetch that returns the newest blob first
fetch_messages_newest_first(rel, queue_id) ==
    [k \in DOMAIN rel[queue_id] |-> rel[queue_id][Len(rel[queue_id]) + 1 - k]]

\* MailboxClient::fetch_messages: the blobs of the queue, as the relay lists them
fetch_messages(rel, queue_id) == rel[queue_id]

\* poll_queue: client.fetch_messages(queue_id)
Fetch(ok) ==
    /\ pollPc = "fetch"
    /\ Faulty(ok)
    /\ LET fetched == fetch_messages(relay, Head(cyclePeers).queue_id)
       IN IF ok /\ fetched # <<>>
          THEN /\ batch' = fetched
               /\ count' = 0
               /\ pollPc' = "open"
               /\ UNCHANGED <<total, cyclePeers>>
          ELSE NextPeer(0)
    /\ UNCHANGED <<tui_connected, fast_interval, unread, sleep_secs>>
    /\ UNCHANGED <<ipcVars, storeVars, sendTask, relay, slot, signals, blobLog, events>>
    /\ UNCHANGED mainVars

\* what poll_queue does with the result of process_message and of the save:
\* "save" the message was saved, "keep" the blob is left alone
DispositionDeleteAlways(result, saved) ==
    IF result.tag = "ok" THEN "save" ELSE "keep"

Disposition(result, saved) ==
    IF result.tag = "ok" /\ saved THEN "save" ELSE "keep"

\* poll_queue: process_message on the current blob, and the save when it opened
OpenBlob(saved) ==
    /\ pollPc = "open"
    /\ LET blob == Head(batch)
           result == process_message(blob, Head(cyclePeers).queue_id, Me)
           disp == Disposition(result, saved)
       IN /\ result.tag = "ok" \/ saved
          /\ Faulty(saved)
          /\ blobLog' = [blobLog EXCEPT ![blob.id].opened = TRUE,
                                        ![blob.id].saved = @ + (IF result.tag = "ok" /\ saved THEN 1 ELSE 0)]
          /\ IF disp = "save"
             THEN /\ messages' = IF saved THEN save_message(messages, result.msg) ELSE messages
                  /\ count' = count + 1
                  /\ pollPc' = "push"
                  /\ UNCHANGED <<total, cyclePeers, batch>>
             ELSE /\ messages' = messages
                  /\ NextBlob(count)
    /\ UNCHANGED <<tui_connected, fast_interval, unread, sleep_secs>>
    /\ UNCHANGED <<ipcVars, sendTask, relay, slot, signals, events>>
    /\ UNCHANGED <<keypair, current_interval_secs, registry, disk>>
    /\ UNCHANGED mainVars

\* poll_queue: crate::ipc::push_new_message for the blob just saved
PushBlob ==
    /\ pollPc = "push"
    /\ LET blob == Head(batch)
           msg == process_message(blob, Head(cyclePeers).queue_id, Me).msg
       IN /\ evq' = push_new_message(evq, slot, msg)
          /\ blobLog' = [blobLog EXCEPT ![blob.id].pushed = IF evq' # evq THEN Append(@, slot) ELSE @]
    /\ pollPc' = "delete"
    /\ UNCHANGED <<tui_connected, fast_interval, unread, sleep_secs, cyclePeers, total, batch, count>>
    /\ UNCHANGED <<acceptPc, acceptSess, sessPc, replyq>>
    /\ UNCHANGED <<storeVars, sendTask, relay, slot, signals, budget>>
    /\ UNCHANGED mainVars

RemoveBlob(q, id) == SelectSeq(q, LAMBDA b : b.id # id)

\* poll_queue: client.delete_message(queue_id, &msg.id); its result is ignored
DeleteBlob(ok) ==
    /\ pollPc = "delete"
    /\ Faulty(ok)
    /\ LET blob == Head(batch)
           queue_id == Head(cyclePeers).queue_id
       IN /\ relay' = IF ok THEN [relay EXCEPT ![queue_id] = RemoveBlob(@, blob.id)] ELSE relay
          /\ blobLog' = [blobLog EXCEPT ![blob.id].delreq = @ + 1]
    /\ NextBlob(count)
    /\ UNCHANGED <<tui_connected, fast_interval, unread, sleep_secs>>
    /\ UNCHANGED <<ipcVars, storeVars, sendTask, slot, signals, events>>
    /\ UNCHANGED mainVars

\* the sleep that follows a cycle
SleepSecsFast(connected, fast) == fast

SleepSecs(connected, fast) == IF connected THEN fast ELSE slow_interval

\* a background cycle that notifies the user whatever it found
NotifiedAlways(log, new_msgs) == Append(log, new_msgs)

\* background mode: send_notification(new_msgs), only when new_msgs > 0
Notified(log, new_msgs) == IF new_msgs > 0 THEN Append(log, new_msgs) ELSE log

\* polling_loop: after poll_all_queues returned new_msgs = total
EndCycle ==
    /\ pollPc = "end_cycle"
    /\ IF tui_connected
       THEN /\ fast_interval' = IF total > 0 THEN reset(fast_interval) ELSE increase(fast_interval)
            /\ evq' = push_polling_interval(evq, slot, fast_interval')
            /\ unread' = unread
       ELSE /\ unread' = unread + total
            /\ UNCHANGED <<fast_interval, evq>>
    /\ tx' = IF ~tui_connected /\ total > 0 THEN Append(tx, unread') ELSE tx
    /\ notifications' = IF tui_connected THEN notifications ELSE Notified(notifications, total)
    /\ UNCHANGED <<lockVars, urlVars>>
    /\ sleep_secs' = SleepSecs(tui_connected, fast_interval')
    /\ pollPc' = "sleep"
    /\ total' = 0
    /\ UNCHANGED <<tui_connected, cyclePeers, batch, count>>
    /\ UNCHANGED <<acceptPc, acceptSess, sessPc, replyq>>
    /\ UNCHANGED <<storeVars, sendTask, relay, slot, signals, blobLog, budget>>

\* Timing assumption of the model: the sleep (5 s or more) outlasts the
\* writing of the events queued for the sessions, so the timer fires only
\* once the connection tasks have drained their event queues. A signal ends
\* the sleep at any time.
QueuesDrained == \A s \in SessionIds : evq[s] = <<>>

\* polling_loop: the sleep elapsed
SleepElapsed ==
    /\ pollPc = "sleep"
    /\ QueuesDrained
    /\ pollPc' = "load_peers"
    /\ sleep_secs' = 0
    /\ UNCHANGED <<tui_connected, fast_interval, unread, cyclePeers, total, batch, count>>
    /\ UNCHANGED <<ipcVars, storeVars, sendTask, relay, slot, signals, blobLog, budget>>
    /\ UNCHANGED mainVars

\* a receive that empties the channel: the signals behind the first are lost
recv_all(q) == <<>>

\* signal_rx.recv(): the oldest signal leaves the channel, the others stay
recv(q) == Tail(q)

\* an attach that leaves the unread counter as it is
KeepUnread(n) == n

\* TuiConnected: unread = 0
ClearUnread(n) == 0

\* a loop that goes on sleeping after it handled a signal
AfterSignalSleep == "sleep"

\* where the loop goes after it handled a signal: break, poll immediately
AfterSignal == "load_peers"

\* polling_loop: signal_rx.recv() returned a signal during the sleep
RecvSignal ==
    /\ pollPc = "sleep"
    /\ signals # <<>>
    /\ signals' = recv(signals)
    /\ pollPc' = AfterSignal
    /\ sleep_secs' = 0
    /\ CASE Head(signals) = "TuiConnected" ->
              /\ tui_connected' = TRUE
              /\ unread' = ClearUnread(unread)
              /\ fast_interval' = reset(fast_interval)
              /\ evq' = push_polling_interval(evq, slot, fast_interval')
              /\ tx' = Append(tx, 0)
         [] Head(signals) = "TuiDisconnected" ->
              /\ tui_connected' = FALSE
              /\ UNCHANGED <<unread, fast_interval, evq, tx>>
         [] Head(signals) = "ResetPollingInterval" ->
              /\ fast_interval' = reset(fast_interval)
              /\ evq' = push_polling_interval(evq, slot, fast_interval')
              /\ UNCHANGED <<tui_connected, unread, tx>>
    /\ UNCHANGED <<notifications, lockVars, urlVars>>
    /\ UNCHANGED <<cyclePeers, total, batch, count>>
    /\ UNCHANGED <<acceptPc, acceptSess, sessPc, replyq>>
    /\ UNCHANGED <<storeVars, sendTask, relay, slot, blobLog, budget>>

\* ------------------------------------------------------------- environment
\* another party posts a blob to a conversation queue; a post that lands while
\* a cycle is running is seen as if it had landed before the next cycle
PeerPost(q, env) ==
    /\ pollPc \in {"load_keypair", "disabled", "sleep"}
    /\ NewEvent
    /\ nposts' = nposts + 1
    /\ relay' = [relay EXCEPT ![q] = Append(@, [id |-> nposts', env |-> env])]
    /\ blobLog' = [blobLog EXCEPT ![nposts'].queue = q, ![nposts'].env = env]
    /\ UNCHANGED <<pollVars, ipcVars, storeVars, sendTask, slot, signals, faults>>
    /\ UNCHANGED <<nsess, nsends, nresets, cmdLog>>
    /\ UNCHANGED mainVars

\* --------------------------------------------------------- ipc_accept_loop
\* listener.accept() returned a stream: signal the poll loop
AcceptSignal ==
    /\ acceptPc = "accept"
    /\ NewEvent
    /\ nsess' = nsess + 1
    /\ acceptSess' = nsess'
    /\ signals' = Append(signals, "TuiConnected")
    /\ acceptPc' = "register"
    /\ UNCHANGED <<sessPc, evq, replyq>>
    /\ UNCHANGED <<pollVars, storeVars, sendTask, relay, slot, blobLog, faults>>
    /\ UNCHANGED <<nposts, nsends, nresets, cmdLog>>
    /\ UNCHANGED mainVars

\* *guard = Some(event_tx.clone())
AcceptRegister ==
    /\ acceptPc = "register"
    /\ slot' = acceptSess
    /\ acceptPc' = "send_interval"
    /\ UNCHANGED <<acceptSess, sessPc, evq, replyq>>
    /\ UNCHANGED <<pollVars, storeVars, sendTask, relay, signals, blobLog, budget>>
    /\ UNCHANGED mainVars

\* event_tx.send(PollingInterval { secs: s.current_interval_secs }), then the
\* connection task is spawned and event_tx goes out of scope
AcceptSendInterval ==
    /\ acceptPc = "send_interval"
    /\ evq' = [evq EXCEPT ![acceptSess] = Append(@, PollingInterval(current_interval_secs))]
    /\ sessPc' = [sessPc EXCEPT ![acceptSess] = "select"]
    /\ acceptPc' = "accept"
    /\ acceptSess' = NoSession
    /\ UNCHANGED <<replyq>>
    /\ UNCHANGED <<pollVars, storeVars, sendTask, relay, slot, signals, blobLog, budget>>
    /\ UNCHANGED mainVars

\* --------------------------------------------------- the connection task
\* where the task goes after a failed write of a reply: the break leaves the
\* for loop over the events, not the select loop
AfterReplyWriteFailure == "select"

\* where the task goes after a failed write of a pushed event
AfterPushWriteFailure == "clear_slot"

\* lines.next_line() returned Ok(None) or Err
SessReadEnd(s) ==
    /\ sessPc[s] = "select"
    /\ sessPc' = [sessPc EXCEPT ![s] = "clear_slot"]
    /\ UNCHANGED <<acceptPc, acceptSess, evq, replyq>>
    /\ UNCHANGED <<pollVars, storeVars, sendTask, relay, slot, signals, blobLog, budget>>
    /\ UNCHANGED mainVars

\* event_rx.recv() returned Some(event): write it to the stream
SessPushEvent(s, ok) ==
    /\ sessPc[s] = "select"
    /\ evq[s] # <<>>
    /\ Faulty(ok)
    /\ evq' = [evq EXCEPT ![s] = Tail(@)]
    /\ sessPc' = [sessPc EXCEPT ![s] = IF ok THEN "select" ELSE AfterPushWriteFailure]
    /\ UNCHANGED <<acceptPc, acceptSess, replyq>>
    /\ UNCHANGED <<pollVars, storeVars, sendTask, relay, slot, signals, blobLog, events>>
    /\ UNCHANGED mainVars

\* event_rx.recv() returned None: the queue is empty and every sender is
\* dropped (the only sender that outlives the accept is the one in the slot)
SessRecvNone(s) ==
    /\ sessPc[s] = "select"
    /\ evq[s] = <<>>
    /\ slot # s
    /\ sessPc' = [sessPc EXCEPT ![s] = "clear_slot"]
    /\ UNCHANGED <<acceptPc, acceptSess, evq, replyq>>
    /\ UNCHANGED <<pollVars, storeVars, sendTask, relay, slot, signals, blobLog, budget>>
    /\ UNCHANGED mainVars

\* the for loop over the events handle_command returned: write the next one
SessReplyWrite(s, ok) ==
    /\ sessPc[s] = "reply"
    /\ Faulty(ok)
    /\ replyq' = [replyq EXCEPT ![s] = IF ok THEN Tail(@) ELSE <<>>]
    /\ sessPc' = [sessPc EXCEPT ![s] =
                    IF ok THEN (IF Tail(replyq[s]) = <<>> THEN "select" ELSE "reply")
                    ELSE AfterReplyWriteFailure]
    /\ UNCHANGED <<acceptPc, acceptSess, evq>>
    /\ UNCHANGED <<pollVars, storeVars, sendTask, relay, slot, signals, blobLog, events>>
    /\ UNCHANGED mainVars

\* what the ending task writes into the sender slot
ClearedSlot(sl, s) == NoSession

\* after the select loop: *guard = None
SessClearSlot(s) ==
    /\ sessPc[s] = "clear_slot"
    /\ slot' = ClearedSlot(slot, s)
    /\ sessPc' = [sessPc EXCEPT ![s] = "signal_detach"]
    /\ UNCHANGED <<acceptPc, acceptSess, evq, replyq>>
    /\ UNCHANGED <<pollVars, storeVars, sendTask, relay, signals, blobLog, budget>>
    /\ UNCHANGED mainVars

\* signal_tx.send(TuiDisconnected); the task ends and event_rx is dropped
SessSignalDetach(s) ==
    /\ sessPc[s] = "signal_detach"
    /\ signals' = Append(signals, "TuiDisconnected")
    /\ sessPc' = [sessPc EXCEPT ![s] = "closed"]
    /\ evq' = [evq EXCEPT ![s] = <<>>]
    /\ UNCHANGED <<acceptPc, acceptSess, replyq>>
    /\ UNCHANGED <<pollVars, storeVars, sendTask, relay, slot, blobLog, budget>>
    /\ UNCHANGED mainVars

\* ------------------------------------------------------------ handle_command
\* TuiCommand::ResetPollingInterval: forward the signal, no event
CmdResetPollingInterval(s) ==
    /\ sessPc[s] = "select"
    /\ nresets' = nresets + 1
    /\ Received(s, "ResetPollingInterval")
    /\ signals' = Append(signals, "ResetPollingInterval")
    /\ UNCHANGED <<ipcVars, pollVars, storeVars, sendTask, relay, slot, blobLog, faults>>
    /\ UNCHANGED <<nposts, nsess, nsends>>
    /\ UNCHANGED mainVars

\* the peer_encrypt_pk of a SendMessage: the key of Peer1, hex of no bytes, not hex
PeerKeys == {"a1", "", "zz"}

\* the text of the message of a SendMessage
Plaintext == "hi"

LocalMessage(i, queue_id, status) ==
    [queue_id |-> queue_id, id |-> LocalId(i), content |-> Plaintext, sender |-> "You",
     status |-> status, is_outbound |-> TRUE]

\* the event handle_send_message returns
SendOutcome(kp, peer_encrypt_pk, saved) ==
    IF kp = "none" THEN Error("Keypair not loaded")
    ELSE IF ~encoded(kp, peer_encrypt_pk, Plaintext).ok THEN Error(encoded(kp, peer_encrypt_pk, Plaintext).why)
    ELSE IF ~saved THEN Error("Failed to save message to DB")
    ELSE MessageSent

\* the save is reached: the identity is there and the envelope was sealed
ReachesSave(kp, peer_encrypt_pk) == kp # "none" /\ encoded(kp, peer_encrypt_pk, Plaintext).ok

\* a handler that spawns the post whether or not the row was saved
SpawnsPostUnsaved(kp, peer_encrypt_pk, saved) == ReachesSave(kp, peer_encrypt_pk)

\* tokio::spawn of the post is reached: the handler did not return before it
SpawnsPost(kp, peer_encrypt_pk, saved) == ReachesSave(kp, peer_encrypt_pk) /\ saved

\* the row handle_send_message saves before it spawns the post
SentRowAsSent(i, queue_id) == LocalMessage(i, queue_id, "sent")

SentRow(i, queue_id) == LocalMessage(i, queue_id, "sending")

\* TuiCommand::SendMessage: handle_send_message up to its return
CmdSendMessage(s, queue_id, peer_encrypt_pk, saved) ==
    /\ sessPc[s] = "select"
    /\ nsends' = nsends + 1
    /\ Received(s, "SendMessage")
    /\ UNCHANGED <<nposts, nsess, nresets>>
    /\ ReachesSave(keypair, peer_encrypt_pk) \/ saved
    /\ Faulty(saved)
    /\ LET ev == SendOutcome(keypair, peer_encrypt_pk, saved)
       IN /\ replyq' = [replyq EXCEPT ![s] = <<ev>>]
          /\ messages' = IF ReachesSave(keypair, peer_encrypt_pk) /\ saved
                          THEN save_message(messages, SentRow(nsends', queue_id))
                          ELSE messages
          /\ sendTask' = IF SpawnsPost(keypair, peer_encrypt_pk, saved)
                          THEN [sendTask EXCEPT ![nsends'] =
                                      [queue_id |-> queue_id, encoded |-> encoded(keypair, peer_encrypt_pk, Plaintext).val,
                                       st |-> "spawned"]]
                          ELSE sendTask
    /\ sessPc' = [sessPc EXCEPT ![s] = "reply"]
    /\ UNCHANGED <<acceptPc, acceptSess, evq>>
    /\ UNCHANGED <<keypair, current_interval_secs, registry, disk>>
    /\ UNCHANGED <<pollVars, relay, slot, signals, blobLog>>
    /\ UNCHANGED mainVars

\* the detached task: client.send_message(queue_id, encoded, meta); the relay
\* stores the envelope, signed by the local identity, under a fresh id
SendTaskPost(i, ok) ==
    /\ sendTask[i].st = "spawned"
    /\ Faulty(ok)
    /\ sendTask' = [sendTask EXCEPT ![i].st = IF ok THEN "posted" ELSE "post_failed"]
    /\ relay' = IF ok
                THEN [relay EXCEPT ![sendTask[i].queue_id] = Append(@, [id |-> MaxEvents + i, env |-> sendTask[i].encoded])]
                ELSE relay
    /\ blobLog' = IF ok
                  THEN [blobLog EXCEPT ![MaxEvents + i].queue = sendTask[i].queue_id, ![MaxEvents + i].env = sendTask[i].encoded]
                  ELSE blobLog
    /\ UNCHANGED <<pollVars, ipcVars, storeVars, slot, signals, events>>
    /\ UNCHANGED mainVars

\* what a command handler returned is queued for writing; the task is back at
\* its select when there is nothing to write
Reply(s, evs) ==
    /\ replyq' = [replyq EXCEPT ![s] = evs]
    /\ sessPc' = [sessPc EXCEPT ![s] = IF evs = <<>> THEN "select" ELSE "reply"]
    /\ UNCHANGED <<acceptPc, acceptSess, evq>>

\* handle_load_peers
handle_load_peers(reg, ok) == IF ok THEN <<Peers(reg)>> ELSE <<Error("load peers")>>

\* TuiCommand::LoadPeers
CmdLoadPeers(s, ok) ==
    /\ sessPc[s] = "select"
    /\ Received(s, "LoadPeers")
    /\ Faulty(ok)
    /\ Reply(s, handle_load_peers(registry, ok))
    /\ UNCHANGED <<pollVars, storeVars, sendTask, relay, slot, signals, blobLog>>
    /\ UNCHANGED <<nposts, nsess, nsends, nresets>>
    /\ UNCHANGED mainVars

\* storage::load_messages_for_queue: the rows of the queue (the timestamps by
\* which the query orders them are not modelled)
load_messages_for_queue(rows, queue_id) == SelectSeq(rows, LAMBDA r : r.queue_id = queue_id)

\* handle_load_messages
handle_load_messages(rows, queue_id, ok) ==
    IF ok THEN <<Messages(queue_id, load_messages_for_queue(rows, queue_id))>>
    ELSE <<Error("load messages")>>

\* TuiCommand::LoadMessages
CmdLoadMessages(s, queue_id, ok) ==
    /\ sessPc[s] = "select"
    /\ Received(s, "LoadMessages")
    /\ Faulty(ok)
    /\ Reply(s, handle_load_messages(messages, queue_id, ok))
    /\ UNCHANGED <<pollVars, storeVars, sendTask, relay, slot, signals, blobLog>>
    /\ UNCHANGED <<nposts, nsess, nsends, nresets>>
    /\ UNCHANGED mainVars

\* the contact JSON of ImportContact: parses tells whether it is JSON at all,
\* a field that is missing (or not a string) is "none", "zz" is not hex
Contact(parses, name, encrypt_pk, sign_pk) ==
    [name |-> name, encrypt_pk |-> encrypt_pk, sign_pk |-> sign_pk, parses |-> parses]

NewContact == Contact(TRUE, "carol", "d1", "d2")

OwnContact == Contact(TRUE, "myself", MyEncryptPkHex, MySignPkHex)

Contacts ==
    {Contact(FALSE, "none", "none", "none"),
     Contact(TRUE, "none", "d1", "d2"),
     Contact(TRUE, "carol", "none", "d2"),
     Contact(TRUE, "carol", "d1", "none"),
     Contact(TRUE, "carol", "zz", "d2"),
     Contact(TRUE, "carol", "d1", "zz"),
     NewContact,
     OwnContact,
     Contact(TRUE, "alice2", "a1", "a2"),
     Contact(TRUE, "alice", "d1", "d2")}

\* the outcomes of the file operations of handle_import_contact: all succeed,
\* the load_peers of the duplicate check fails, or save_peer fails
ImportIo == {"ok", "load_failed", "save_failed"}

\* s.keypair.as_ref().map(|kp| to_hex(&kp.encrypt_pk)).unwrap_or_default()
my_pk_hex(kp) == IF kp = "none" THEN "" ELSE MyEncryptPkHex

\* storage::save_peer: the peers with another name, then the new peer
save_peer(reg, peer) == Append(SelectSeq(reg, LAMBDA p : p.name # peer.name), peer)

\* the Peer handle_import_contact builds
ImportedPeer(kp, c) ==
    [name |-> c.name, encrypt_pk |-> c.encrypt_pk, sign_pk |-> c.sign_pk,
     queue_id |-> generate_conversation_queue_id(my_pk_hex(kp), c.encrypt_pk)]

\* handle_import_contact: the events it returns
handle_import_contact(kp, reg, c, io) ==
    LET existing == IF io = "load_failed" THEN <<>> ELSE reg
    IN IF ~c.parses THEN <<Error("Invalid JSON")>>
       ELSE IF c.name = "none" THEN <<Error("Missing 'name' field")>>
       ELSE IF c.encrypt_pk = "none" THEN <<Error("Missing 'encrypt_pk' field")>>
       ELSE IF c.sign_pk = "none" THEN <<Error("Missing 'sign_pk' field")>>
       ELSE IF ~IsHex(c.encrypt_pk) THEN <<Error("Invalid encrypt_pk")>>
       ELSE IF ~IsHex(c.sign_pk) THEN <<Error("Invalid sign_pk")>>
       ELSE IF kp # "none" /\ my_pk_hex(kp) = c.encrypt_pk THEN <<Error("Cannot import your own contact")>>
       ELSE IF \E k \in DOMAIN existing : existing[k].encrypt_pk = c.encrypt_pk
            THEN <<Error("Contact already exists")>>
       ELSE IF io = "save_failed" THEN <<Error("Save peer failed")>>
       ELSE <<ContactImported(ImportedPeer(kp, c))>>

\* the file operation that fails under io is reached: the contact passed the
\* checks on its text and, for save_peer, the duplicate check
ReachesFiles(kp, reg, c, io) ==
    /\ c.parses /\ c.name # "none" /\ c.encrypt_pk # "none" /\ c.sign_pk # "none"
    /\ IsHex(c.encrypt_pk) /\ IsHex(c.sign_pk)
    /\ ~(kp # "none" /\ my_pk_hex(kp) = c.encrypt_pk)
    /\ io = "save_failed" => ~\E k \in DOMAIN reg : reg[k].encrypt_pk = c.encrypt_pk

\* TuiCommand::ImportContact
CmdImportContact(s, c, io) ==
    /\ sessPc[s] = "select"
    /\ Received(s, "ImportContact")
    /\ ReachesFiles(keypair, registry, c, io) \/ io = "ok"
    /\ Faulty(io = "ok")
    /\ LET evs == handle_import_contact(keypair, registry, c, io)
       IN /\ Reply(s, evs)
          /\ registry' = IF evs[1].type = "ContactImported" THEN save_peer(registry, evs[1].peer) ELSE registry
    /\ UNCHANGED <<keypair, current_interval_secs, messages, disk>>
    /\ UNCHANGED <<pollVars, sendTask, relay, slot, signals, blobLog>>
    /\ UNCHANGED <<nposts, nsess, nsends, nresets>>
    /\ UNCHANGED mainVars

\* the contact JSON handle_export_contact builds
ExportedJson(name) == [name |-> name, encrypt_pk |-> MyEncryptPkHex, sign_pk |-> MySignPkHex]

\* handle_export_contact: the events it returns
handle_export_contact(kp, name, written) ==
    IF kp = "none" THEN <<Error("Keypair not loaded")>>
    ELSE IF ~written THEN <<Error("Write file")>>
    ELSE <<ContactExported(ExportedJson(name))>>

\* TuiCommand::ExportContact
CmdExportContact(s, name, written) ==
    /\ sessPc[s] = "select"
    /\ Received(s, "ExportContact")
    /\ keypair # "none" \/ written
    /\ Faulty(written)
    /\ Reply(s, handle_export_contact(keypair, name, written))
    /\ disk' = IF keypair # "none" /\ written THEN [disk EXCEPT !.exported = name] ELSE disk
    /\ UNCHANGED <<keypair, current_interval_secs, registry, messages>>
    /\ UNCHANGED <<pollVars, sendTask, relay, slot, signals, blobLog>>
    /\ UNCHANGED <<nposts, nsess, nsends, nresets>>
    /\ UNCHANGED mainVars

\* a handler that also hands the saved URL to the running agent
running_url_applied(url, saved) == IF saved THEN "updated" ELSE url

\* handle_update_config: what it leaves in IpcState.server_url
running_url(url, saved) == url

\* a handler that acknowledges the saved config
handle_update_config_ack(saved) == IF saved THEN <<MessageSent>> ELSE <<Error("Save config")>>

\* handle_update_config: the events it returns
handle_update_config(saved) == IF saved THEN <<>> ELSE <<Error("Save config")>>

\* TuiCommand::UpdateConfig
CmdUpdateConfig(s, saved) ==
    /\ sessPc[s] = "select"
    /\ Received(s, "UpdateConfig")
    /\ Faulty(saved)
    /\ Reply(s, handle_update_config(saved))
    /\ disk' = IF saved THEN [disk EXCEPT !.config = "updated"] ELSE disk
    /\ server_url' = running_url(server_url, saved)
    /\ UNCHANGED <<keypair, current_interval_secs, registry, messages>>
    /\ UNCHANGED <<pollVars, sendTask, relay, slot, signals, blobLog>>
    /\ UNCHANGED <<nposts, nsess, nsends, nresets>>
    /\ UNCHANGED <<tx, notifications, lockVars, client_url>>

\* a task that ends the session at a line it cannot parse
AfterBadLineEnd == "clear_slot"

\* where the task goes after a line that does not parse: the select again
AfterBadLine == "select"

\* a line that does not parse as a TuiCommand: logged, nothing else
SessBadLine(s) ==
    /\ sessPc[s] = "select"
    /\ Received(s, "Malformed")
    /\ sessPc' = [sessPc EXCEPT ![s] = AfterBadLine]
    /\ UNCHANGED <<acceptPc, acceptSess, evq, replyq>>
    /\ UNCHANGED <<pollVars, storeVars, sendTask, relay, slot, signals, blobLog, faults>>
    /\ UNCHANGED <<nposts, nsess, nsends, nresets>>
    /\ UNCHANGED mainVars

\* a task that records every post as sent
PostStatusSent(st) == "sent"

\* the status the detached task records for the result of the post
PostStatus(st) == IF st = "posted" THEN "sent" ELSE "failed"

\* the detached task: UPDATE messages SET status = 'sent' / 'failed'; nothing
\* is written when the database cannot be opened
SendTaskUpdate(i, dbok) ==
    /\ sendTask[i].st \in {"posted", "post_failed"}
    /\ Faulty(dbok)
    /\ sendTask' = [sendTask EXCEPT ![i].st = "done"]
    /\ messages' = IF dbok
                   THEN update_status(messages, LocalId(i), PostStatus(sendTask[i].st))
                   ELSE messages
    /\ UNCHANGED <<keypair, current_interval_secs, registry, disk>>
    /\ UNCHANGED <<pollVars, ipcVars, relay, slot, signals, blobLog, events>>
    /\ UNCHANGED mainVars

\* ------------------------------------------------------------ specification
\* everything else: the poll loop, other parties, the accept loop, the
\* connection tasks and the detached send tasks
Background ==
    \/ \E ok \in BOOLEAN : LoadKeypair(ok)
    \/ \E ok \in BOOLEAN : LoadPeers(ok)
    \/ \E ok \in BOOLEAN : Fetch(ok)
    \/ \E saved \in BOOLEAN : OpenBlob(saved)
    \/ PushBlob
    \/ \E ok \in BOOLEAN : DeleteBlob(ok)
    \/ EndCycle
    \/ SleepElapsed
    \/ RecvSignal
    \/ \E p \in Posts : PeerPost(p[1], p[2])
    \/ AcceptSignal
    \/ AcceptRegister
    \/ AcceptSendInterval
    \/ \E s \in SessionIds : SessReadEnd(s)
    \/ \E s \in SessionIds, ok \in BOOLEAN : SessPushEvent(s, ok)
    \/ \E s \in SessionIds : SessRecvNone(s)
    \/ \E s \in SessionIds, ok \in BOOLEAN : SessReplyWrite(s, ok)
    \/ \E s \in SessionIds : SessClearSlot(s)
    \/ \E s \in SessionIds : SessSignalDetach(s)
    \/ \E i \in SendIds, ok \in BOOLEAN : SendTaskPost(i, ok)
    \/ \E i \in SendIds, dbok \in BOOLEAN : SendTaskUpdate(i, dbok)

\* the commands of the sessions, each within the budget of the run
Next ==
    \/ Background
    \/ \E s \in SessionIds : NewEvent /\ CmdResetPollingInterval(s)
    \/ \E s \in SessionIds, q \in PeerQueues, pk \in PeerKeys, saved \in BOOLEAN :
          NewEvent /\ CmdSendMessage(s, q, pk, saved)
    \/ \E s \in SessionIds, ok \in BOOLEAN : NewEvent /\ CmdLoadPeers(s, ok)
    \/ \E s \in SessionIds, q \in PeerQueues, ok \in BOOLEAN : NewEvent /\ CmdLoadMessages(s, q, ok)
    \/ \E s \in SessionIds, c \in Contacts, io \in ImportIo : NewEvent /\ CmdImportContact(s, c, io)
    \/ \E s \in SessionIds, written \in BOOLEAN : NewEvent /\ CmdExportContact(s, "me", written)
    \/ \E s \in SessionIds, saved \in BOOLEAN : NewEvent /\ CmdUpdateConfig(s, saved)
    \/ \E s \in SessionIds : NewEvent /\ SessBadLine(s)

\* session runs: the commands are budgeted by NewCommand
SessionNext ==
    \/ Background
    \/ \E s \in SessionIds : NewCommand /\ CmdResetPollingInterval(s)
    \/ \E s \in SessionIds, q \in PeerQueues, pk \in PeerKeys, saved \in BOOLEAN :
          NewCommand /\ CmdSendMessage(s, q, pk, saved)
    \/ \E s \in SessionIds, ok \in BOOLEAN : NewCommand /\ CmdLoadPeers(s, ok)
    \/ \E s \in SessionIds, q \in PeerQueues, ok \in BOOLEAN : NewCommand /\ CmdLoadMessages(s, q, ok)
    \/ \E s \in SessionIds, c \in Contacts, io \in ImportIo : NewCommand /\ CmdImportContact(s, c, io)
    \/ \E s \in SessionIds, written \in BOOLEAN : NewCommand /\ CmdExportContact(s, "me", written)
    \/ \E s \in SessionIds, saved \in BOOLEAN : NewCommand /\ CmdUpdateConfig(s, saved)
    \/ \E s \in SessionIds : NewCommand /\ SessBadLine(s)

\* mode runs: connections up to the budget and, on any of them and at any
\* time, ResetPollingInterval commands; no posts and no other commands
ModeNext ==
    \/ \E ok \in BOOLEAN : LoadKeypair(ok)
    \/ \E ok \in BOOLEAN : LoadPeers(ok)
    \/ \E ok \in BOOLEAN : Fetch(ok)
    \/ EndCycle
    \/ SleepElapsed
    \/ RecvSignal
    \/ AcceptSignal
    \/ AcceptRegister
    \/ AcceptSendInterval
    \/ \E s \in SessionIds : SessReadEnd(s)
    \/ \E s \in SessionIds, ok \in BOOLEAN : SessPushEvent(s, ok)
    \/ \E s \in SessionIds : SessRecvNone(s)
    \/ \E s \in SessionIds : SessClearSlot(s)
    \/ \E s \in SessionIds : SessSignalDetach(s)
    \/ \E s \in SessionIds : nresets < MaxResets /\ CmdResetPollingInterval(s)

\* runs about rejected blobs: the poll loop, posts of envelopes that do not
\* open, and connections; no commands
RejectNext ==
    \/ \E ok \in BOOLEAN : LoadKeypair(ok)
    \/ \E ok \in BOOLEAN : LoadPeers(ok)
    \/ \E ok \in BOOLEAN : Fetch(ok)
    \/ \E saved \in BOOLEAN : OpenBlob(saved)
    \/ PushBlob
    \/ \E ok \in BOOLEAN : DeleteBlob(ok)
    \/ EndCycle
    \/ SleepElapsed
    \/ RecvSignal
    \/ \E p \in RejectPosts : PeerPost(p[1], p[2])
    \/ AcceptSignal
    \/ AcceptRegister
    \/ AcceptSendInterval
    \/ \E s \in SessionIds, ok \in BOOLEAN : SessPushEvent(s, ok)

RejectSpec == Init /\ [][RejectNext]_vars

\* ------------------------------------------- PollingService (backend.rs)
\* The in-process polling service of the front-end. It runs instead of the
\* daemon's poll loop, on the same relay, peers.json and messages table; its
\* run loop uses pollPc, cyclePeers, total, batch, count and fast_interval as
\* polling_loop does, signals is its command channel and tx the channel of
\* AppEvents to the UI.
PollingIntervalUpdate(secs) == [type |-> "PollingIntervalUpdate", secs |-> secs]

\* the outcomes of the store in poll_once: the database opens and the save
\* succeeds, init_message_db fails, or save_message fails
FrontIo == {"ok", "db_failed", "save_failed"}

\* PollingService::process_message: the steps of the daemon's process_message
\* (other texts for the errors that are only logged)
front_process_message(blob, queue_id, kp) == process_message(blob, queue_id, kp)

\* poll_once, what follows process_message and the save: "emit" the event is
\* sent, the blob deleted and counted; "skip" the loop continues with the
\* next blob; "delete_invalid" the blob is deleted and not counted
front_disposition(result, io) ==
    IF result.tag = "ok" THEN (IF io = "save_failed" THEN "skip" ELSE "emit")
    ELSE IF result.tag = "own" THEN "skip"
    ELSE IF result.why \in {"Decryption failed", "Signature verification failed"} THEN "delete_invalid"
    ELSE "skip"

\* PollingService::start and the first lines of run
FrontStart ==
    /\ pollPc = "load_keypair"
    /\ keypair' = Me
    /\ fast_interval' = FAST_MIN
    /\ pollPc' = "try_recv"
    /\ UNCHANGED <<tui_connected, unread, sleep_secs, cyclePeers, total, batch, count>>
    /\ UNCHANGED <<current_interval_secs, registry, messages, disk>>
    /\ UNCHANGED <<ipcVars, sendTask, relay, slot, signals, blobLog, budget, mainVars>>

\* the UI sends PollingCommand::ResetInterval
FrontResetInterval ==
    /\ pollPc # "load_keypair"
    /\ nresets < MaxResets
    /\ nresets' = nresets + 1
    /\ signals' = Append(signals, "ResetInterval")
    /\ UNCHANGED <<pollVars, ipcVars, storeVars, sendTask, relay, slot, blobLog, faults, mainVars>>
    /\ UNCHANGED <<nposts, nsess, nsends, cmdLog>>

\* run: while let Ok(cmd) = command_receiver.try_recv()
FrontTryRecv ==
    /\ pollPc = "try_recv"
    /\ IF signals # <<>>
       THEN /\ signals' = Tail(signals)
            /\ fast_interval' = reset(fast_interval)
            /\ tx' = Append(tx, PollingIntervalUpdate(fast_interval'))
            /\ UNCHANGED pollPc
       ELSE /\ pollPc' = "load_peers"
            /\ UNCHANGED <<signals, fast_interval, tx>>
    /\ UNCHANGED <<tui_connected, unread, sleep_secs, cyclePeers, total, batch, count>>
    /\ UNCHANGED <<ipcVars, storeVars, sendTask, relay, slot, blobLog, budget, notifications, lockVars, urlVars>>

\* poll_all_queues: storage::load_peers, as in the daemon
FrontLoadPeers(ok) == pollPc = "load_peers" /\ LoadPeers(ok)

\* poll_once: mailbox_client.fetch_messages(queue_id), as in the daemon
FrontFetch(ok) == pollPc = "fetch" /\ Fetch(ok)

\* poll_once: process_message on the current blob and, when it opened,
\* init_message_db and save_message
FrontOpenBlob(io) ==
    /\ pollPc = "open"
    /\ LET blob == Head(batch)
           result == front_process_message(blob, Head(cyclePeers).queue_id, keypair)
           disp == front_disposition(result, io)
           saved == result.tag = "ok" /\ io = "ok"
       IN /\ result.tag = "ok" \/ io = "ok"
          /\ Faulty(io = "ok")
          /\ blobLog' = [blobLog EXCEPT ![blob.id].opened = TRUE,
                                        ![blob.id].saved = @ + (IF saved THEN 1 ELSE 0)]
          /\ messages' = IF saved THEN save_message(messages, result.msg) ELSE messages
          /\ IF disp \in {"emit", "delete_invalid"}
             THEN /\ pollPc' = disp
                  /\ UNCHANGED <<total, cyclePeers, batch, count>>
             ELSE NextBlob(count)
    /\ UNCHANGED <<tui_connected, fast_interval, unread, sleep_secs>>
    /\ UNCHANGED <<keypair, current_interval_secs, registry, disk>>
    /\ UNCHANGED <<ipcVars, sendTask, relay, slot, signals, events, mainVars>>

\* poll_once: event_sender.send(AppEvent::NewMessage(message))
FrontEmit ==
    /\ pollPc = "emit"
    /\ LET blob == Head(batch)
           msg == front_process_message(blob, Head(cyclePeers).queue_id, keypair).msg
       IN /\ tx' = Append(tx, NewMessage(msg))
          /\ blobLog' = [blobLog EXCEPT ![blob.id].pushed = Append(@, "ui")]
    /\ pollPc' = "delete"
    /\ UNCHANGED <<tui_connected, fast_interval, unread, sleep_secs, cyclePeers, total, batch, count>>
    /\ UNCHANGED <<ipcVars, storeVars, sendTask, relay, slot, signals, budget, notifications, lockVars, urlVars>>

\* poll_once: mailbox_client.delete_message(queue_id, &server_msg.id), after
\* the event (then processed_count += 1) or for an invalid blob
FrontDeleteBlob(ok) ==
    /\ pollPc \in {"delete", "delete_invalid"}
    /\ Faulty(ok)
    /\ LET blob == Head(batch)
           queue_id == Head(cyclePeers).queue_id
       IN /\ relay' = IF ok THEN [relay EXCEPT ![queue_id] = RemoveBlob(@, blob.id)] ELSE relay
          /\ blobLog' = [blobLog EXCEPT ![blob.id].delreq = @ + 1]
    /\ NextBlob(IF pollPc = "delete" THEN count + 1 ELSE count)
    /\ UNCHANGED <<tui_connected, fast_interval, unread, sleep_secs>>
    /\ UNCHANGED <<ipcVars, storeVars, sendTask, slot, signals, events, mainVars>>

\* run: after poll_all_queues returned has_messages = total > 0
FrontEndCycle ==
    /\ pollPc = "end_cycle"
    /\ fast_interval' = IF total > 0 THEN reset(fast_interval) ELSE increase(fast_interval)
    /\ tx' = Append(tx, PollingIntervalUpdate(fast_interval'))
    /\ sleep_secs' = fast_interval'
    /\ pollPc' = "sleep"
    /\ total' = 0
    /\ UNCHANGED <<tui_connected, unread, cyclePeers, batch, count>>
    /\ UNCHANGED <<ipcVars, storeVars, sendTask, relay, slot, signals, blobLog, budget, notifications, lockVars, urlVars>>

\* the UI takes an AppEvent from its channel
FrontUiRecv ==
    /\ tx # <<>>
    /\ tx' = Tail(tx)
    /\ UNCHANGED <<pollVars, ipcVars, storeVars, sendTask, relay, slot, signals, blobLog, budget, notifications, lockVars, urlVars>>

\* run: the sleep elapsed (the UI has taken its events, as in QueuesDrained)
FrontSleepElapsed ==
    /\ pollPc = "sleep"
    /\ tx = <<>>
    /\ pollPc' = "try_recv"
    /\ sleep_secs' = 0
    /\ UNCHANGED <<tui_connected, fast_interval, unread, cyclePeers, total, batch, count>>
    /\ UNCHANGED <<ipcVars, storeVars, sendTask, relay, slot, signals, blobLog, budget, mainVars>>

FrontNext ==
    \/ FrontStart
    \/ FrontResetInterval
    \/ FrontTryRecv
    \/ \E ok \in BOOLEAN : FrontLoadPeers(ok)
    \/ \E ok \in BOOLEAN : FrontFetch(ok)
    \/ \E io \in FrontIo : FrontOpenBlob(io)
    \/ FrontEmit
    \/ \E ok \in BOOLEAN : FrontDeleteBlob(ok)
    \/ FrontEndCycle
    \/ FrontUiRecv
    \/ FrontSleepElapsed
    \/ \E p \in Posts : PeerPost(p[1], p[2])

FrontSpec == Init /\ [][FrontNext]_vars

\* ------------------------------------------------- threads and mutexes
Finished(t) == lockPc[t].idx > Len(lockPc[t].code)

\* the statement thread t executes next
Current(t) == lockPc[t].code[lockPc[t].idx]

Advance(t) == lockPc' = [lockPc EXCEPT ![t].idx = @ + 1]

LockFrame ==
    UNCHANGED <<pollVars, ipcVars, storeVars, sendTask, relay, slot, signals, blobLog, budget, tx, notifications, urlVars>>

\* the thread goes on with one of the things it does
LockBegin(t, code) ==
    /\ Finished(t)
    /\ code \in Paths(t)
    /\ lockPc' = [lockPc EXCEPT ![t] = [code |-> code, idx |-> 1]]
    /\ UNCHANGED held
    /\ LockFrame

\* mutex.lock(): waits until the mutex is free
LockAcquire(t) ==
    /\ ~Finished(t)
    /\ Current(t).op = "lock"
    /\ held[Current(t).lock] = "none"
    /\ held' = [held EXCEPT ![Current(t).lock] = t]
    /\ Advance(t)
    /\ LockFrame

\* the guard is dropped
LockRelease(t) ==
    /\ ~Finished(t)
    /\ Current(t).op = "unlock"
    /\ held' = [held EXCEPT ![Current(t).lock] = "none"]
    /\ Advance(t)
    /\ LockFrame

\* a call of the MailboxClient: post, fetch or delete
LockRelayCall(t) ==
    /\ ~Finished(t)
    /\ Current(t).op = "relay"
    /\ Advance(t)
    /\ UNCHANGED held
    /\ LockFrame

\* any other statement
LockStatement(t) ==
    /\ ~Finished(t)
    /\ Current(t).op \notin {"lock", "unlock", "relay"}
    /\ Advance(t)
    /\ UNCHANGED held
    /\ LockFrame

LockNext ==
    \/ \E t \in Threads : \E code \in Paths(t) : LockBegin(t, code)
    \/ \E t \in Threads : LockAcquire(t)
    \/ \E t \in Threads : LockRelease(t)
    \/ \E t \in Threads : LockRelayCall(t)
    \/ \E t \in Threads : LockStatement(t)

LockSpec == Init /\ [][LockNext]_vars

Spec == Init /\ [][Next]_vars

ModeSpec == Init /\ [][ModeNext]_vars

SessionSpec == Init /\ [][SessionNext]_vars

\* ================================================================ claims
BlobRowId(b) == <<"blob", b>>

InRelay(b) == \E q \in QueueIds : \E k \in DOMAIN relay[q] : relay[q][k].id = b

\* the blob as other parties (or the send task) posted it
PostedBlob(b) == [id |-> b, env |-> blobLog[b].env]

Posted(b) == blobLog[b].queue # "none"

\* C1: every blob whose delete the daemon has asked of the relay has its
\* Message in the local store, and the daemon gets to the push and the delete
\* of a blob only with that blob's Message saved; a failed save leaves the blob
\* on the relay.
C1_DeleteOnlyAfterSave ==
    /\ \A b \in BlobIds : blobLog[b].delreq > 0 => Len(RowsWithId(messages, BlobRowId(b))) > 0
    /\ pollPc \in {"push", "delete"} => Len(RowsWithId(messages, BlobRowId(Head(batch).id))) > 0
    /\ \A b \in BlobIds : (Posted(b) /\ blobLog[b].saved = 0) => InRelay(b)

\* C1 witness: a blob was saved once and then deleted from the relay
C1_Witness ==
    \E b \in BlobIds : blobLog[b].delreq > 0 /\ ~InRelay(b) /\ blobLog[b].saved = 1 /\ pollPc = "sleep"

\* C3: no blob's NewMessage is queued twice to the same session.
C3_NoDuplicatePush ==
    \A b \in BlobIds : \A i, j \in DOMAIN blobLog[b].pushed :
        i # j => blobLog[b].pushed[i] # blobLog[b].pushed[j]

\* C4: however often a blob is processed, the store holds exactly one Message
\* with its id, and it is the Message process_message builds from the blob.
C4_IdempotentDelivery ==
    \A b \in BlobIds : blobLog[b].saved > 0 =>
        RowsWithId(messages, BlobRowId(b)) = <<process_message(PostedBlob(b), blobLog[b].queue, Me).msg>>

\* C4 witness: a blob has been saved twice
C4_Witness == \E b \in BlobIds : blobLog[b].saved >= 2 /\ Len(RowsWithId(messages, BlobRowId(b))) = 1

\* a posted blob whose first 32 bytes are the local sign_pk
OwnBlob(b) ==
    /\ Posted(b)
    /\ blobLog[b].env.b64 /\ ByteLen(blobLog[b].env.bytes) >= 32
    /\ <<Head(blobLog[b].env.bytes)>> = Keypair(Me).sign_pk

\* C5: a blob that starts with the local sign_pk opens as the own-message
\* condition, whatever its signature, and is never stored, counted, pushed or
\* deleted.
C5_OwnMessageSkipped ==
    \A b \in BlobIds : OwnBlob(b) =>
        /\ process_message(PostedBlob(b), blobLog[b].queue, Me).tag = "own"
        /\ blobLog[b].saved = 0
        /\ blobLog[b].pushed = <<>>
        /\ blobLog[b].delreq = 0
        /\ Len(RowsWithId(messages, BlobRowId(b))) = 0
        /\ InRelay(b)
        /\ (pollPc \in {"push", "delete"} => Head(batch).id # b)

\* C5 witness: an own blob with an invalid signature has been processed
C5_Witness ==
    \E b \in BlobIds : OwnBlob(b) /\ ~verify_signature(Tail(blobLog[b].env.bytes), Keypair(Me).sign_pk).ok /\ blobLog[b].opened /\ pollPc = "sleep"

Live(s) == sessPc[s] \in {"select", "reply"}

Ending(s) == sessPc[s] \in {"clear_slot", "signal_detach", "closed"}

\* C6: the session accepted last holds the sender slot for as long as it
\* lives, whatever happens to the sessions accepted before it.
C6_LastConnectionWins ==
    \A s \in SessionIds : (s = nsess /\ acceptPc = "accept" /\ Live(s)) => slot = s

\* C7: the PollingInterval event the accept loop sends to a new session
\* carries the current value of the adaptive interval.
C7_AttachSendsCurrentInterval ==
    [][(acceptPc = "send_interval" /\ acceptPc' = "accept")
        => evq'[acceptSess] = Append(evq[acceptSess], PollingInterval(fast_interval))]_vars

\* every accepted session has ended and its signals are consumed
AllDetached ==
    /\ nsess > 0
    /\ acceptPc = "accept"
    /\ \A s \in 1..nsess : sessPc[s] = "closed"
    /\ \A k \in DOMAIN signals : signals[k] = "ResetPollingInterval"

C8_DetachedState ==
    AllDetached =>
        /\ ~tui_connected
        /\ slot = NoSession
        /\ (pollPc = "sleep" => sleep_secs = slow_interval)

\* C8: once every accepted session has ended and its signals are consumed,
\* the engine is in background mode with the slot empty, it sleeps the fixed
\* slow duration, and no event is queued to any session before the next accept.
C8_DetachedBackground ==
    /\ []C8_DetachedState
    /\ [][AllDetached => evq' = evq]_vars

\* C8 witness: with the only session detached, a background cycle has
\* delivered a message and the loop sleeps
C8_Witness == AllDetached /\ nsess = 1 /\ pollPc = "sleep" /\ unread > 0

\* the step is a failed write of a reply / of a pushed event on session s
ReplyWriteFailed(s) == sessPc[s] = "reply" /\ faults' = faults + 1 /\ replyq'[s] # replyq[s]

PushWriteFailed(s) ==
    sessPc[s] = "select" /\ faults' = faults + 1 /\ evq[s] # <<>> /\ evq'[s] = Tail(evq[s])

\* C9: a failed write of an Event to the stream of a session, be it a reply
\* or a pushed event, ends the session.
C9_WriteFailureEndsSession ==
    [][\A s \in SessionIds : (ReplyWriteFailed(s) \/ PushWriteFailed(s)) => Ending(s)']_vars

\* the stored rows of the i-th SendMessage
RowOf(i) == RowsWithId(messages, LocalId(i))

C10_SavedWhileSpawned ==
    \A i \in SendIds :
        /\ sendTask[i].st # "none" =>
              /\ Len(RowOf(i)) = 1
              /\ RowOf(i)[1].is_outbound
              /\ RowOf(i)[1].queue_id = sendTask[i].queue_id
        /\ sendTask[i].st \in {"spawned", "posted", "post_failed"} => RowOf(i)[1].status = "sending"

C10_AnsweredAtSpawn ==
    \A s \in SessionIds :
        (replyq[s] = <<>> /\ replyq'[s] = <<MessageSent>>) =>
            /\ sendTask'[nsends'].st = "spawned"
            /\ sendTask[nsends'].st = "none"
            /\ relay' = relay
            /\ RowsWithId(messages', LocalId(nsends')) = <<SentRow(nsends', sendTask'[nsends'].queue_id)>>

\* C10: when SendMessage is answered with MessageSent, the outbound Message
\* is in the store with status sending and the command's queue id, and the
\* relay post has not started; it stays sending until the post has ended.
C10_SendSavedBeforePost ==
    /\ []C10_SavedWhileSpawned
    /\ [][C10_AnsweredAtSpawn]_vars

\* C10 witness: MessageSent has been written to the session while the post
\* has not started
C10_Witness ==
    \E s \in SessionIds, i \in SendIds :
        /\ sessPc[s] = "select" /\ replyq[s] = <<>> /\ faults = 0
        /\ sendTask[i].st = "spawned"
        /\ RowOf(i)[1].status = "sending"

\* --------------------------------------------------------------- fairness
\* the poll thread's runtime keeps running polling_loop
PollStep ==
    \/ \E ok \in BOOLEAN : LoadKeypair(ok)
    \/ \E ok \in BOOLEAN : LoadPeers(ok)
    \/ \E ok \in BOOLEAN : Fetch(ok)
    \/ \E saved \in BOOLEAN : OpenBlob(saved)
    \/ PushBlob
    \/ \E ok \in BOOLEAN : DeleteBlob(ok)
    \/ EndCycle
    \/ SleepElapsed
    \/ RecvSignal

\* the IPC runtime finishes an accept it has begun
AcceptStep == AcceptRegister \/ AcceptSendInterval

\* the IPC runtime keeps running a connection task: it writes what is queued
\* for the stream and finishes a teardown it has begun
SessStep(s) ==
    \/ \E ok \in BOOLEAN : SessPushEvent(s, ok)
    \/ \E ok \in BOOLEAN : SessReplyWrite(s, ok)
    \/ SessRecvNone(s)
    \/ SessClearSlot(s)
    \/ SessSignalDetach(s)

\* Spec with the scheduling of the two runtimes; the failures of fetch, save
\* and delete are finitely many (MaxFaults), so each eventually succeeds
LiveSpec ==
    /\ Init
    /\ [][Next]_vars
    /\ WF_vars(PollStep)
    /\ WF_vars(AcceptStep)
    /\ \A s \in SessionIds : WF_vars(SessStep(s))

\* a posted blob that opens to a Message under the local identity
ValidPosted(b) == Posted(b) /\ process_message(PostedBlob(b), blobLog[b].queue, Me).tag = "ok"

Delivered(b) ==
    /\ Len(RowsWithId(messages, BlobRowId(b))) = 1
    /\ RowsWithId(messages, BlobRowId(b))[1].status = "delivered"
    /\ blobLog[b].delreq > 0
    /\ ~InRelay(b)

StatusOf(rows, i) ==
    IF Len(RowsWithId(rows, LocalId(i))) = 0 THEN "absent" ELSE RowsWithId(rows, LocalId(i))[1].status

\* the step takes the row of the i-th SendMessage from status a to status b
StatusStep(i, a, b) == StatusOf(messages, i) = a /\ StatusOf(messages', i) = b

\* C11: the status of an outbound Message changes only from sending to sent,
\* when its post succeeded, and from sending to failed, when its post failed;
\* a row that exists is never removed, duplicated or set back to sending.
C11_StatusOnlyAdvances ==
    [][\A i \in SendIds :
          /\ Len(RowsWithId(messages', LocalId(i))) <= 1
          /\ \/ StatusOf(messages', i) = StatusOf(messages, i)
             \/ StatusStep(i, "absent", "sending")
             \/ StatusStep(i, "sending", "sent") /\ sendTask[i].st = "posted"
             \/ StatusStep(i, "sending", "failed") /\ sendTask[i].st = "post_failed"]_vars

\* C11 witness: one outbound Message has gone to failed and a later one to
\* sent, with a poll cycle run in between
C11_Witness ==
    /\ StatusOf(messages, 1) = "failed"
    /\ StatusOf(messages, 2) = "sent"
    /\ pollPc = "sleep"

\* the types of Event a command of the given type may be answered with
AllowedReplies(type) ==
    CASE type = "SendMessage" -> {"MessageSent", "Error"}
      [] type = "LoadMessages" -> {"Messages", "Error"}
      [] type = "LoadPeers" -> {"Peers", "Error"}
      [] type = "ImportContact" -> {"ContactImported", "Error"}
      [] type = "ExportContact" -> {"ContactExported", "Error"}
      [] type = "UpdateConfig" -> {"Error"}
      [] type = "ResetPollingInterval" -> {}
      [] type = "Malformed" -> {}

\* the commands that are always answered
AlwaysAnswered == {"SendMessage", "LoadMessages", "LoadPeers", "ImportContact", "ExportContact"}

\* the step handles a command: what its handler queues for writing
CommandStep ==
    cmdLog' # cmdLog =>
        LET e == cmdLog'[Len(cmdLog')]
            evs == replyq'[e.sess]
        IN /\ Len(evs) <= 1
           /\ \A k \in DOMAIN evs : evs[k].type \in AllowedReplies(e.type)
           /\ e.type \in AlwaysAnswered => Len(evs) = 1
           /\ e.type = "UpdateConfig" => (evs = <<>> <=> disk'.config = "updated" /\ faults' = faults)
           /\ \A s \in SessionIds \ {e.sess} : replyq'[s] = replyq[s]
           /\ evq' = evq

\* the step is the status update of a detached send task
StatusUpdateStep == \E i \in SendIds : sendTask[i].st \in {"posted", "post_failed"} /\ sendTask'[i].st = "done"

\* C12: every command is answered with at most one Event, of the type that
\* belongs to the command and queued for the session that sent it, and the
\* status update of a send task queues no event.
C12_OneReplyPerCommand ==
    [][CommandStep /\ (StatusUpdateStep => evq' = evq /\ replyq' = replyq)]_vars

\* C12 witness: an UpdateConfig was handled without an event and a contact
\* was exported, on one session
C12_Witness ==
    /\ Len(cmdLog) = 2
    /\ cmdLog[1].type = "UpdateConfig" /\ disk.config = "updated"
    /\ cmdLog[2].type = "ExportContact" /\ replyq[cmdLog[2].sess] = <<ContactExported(ExportedJson("me"))>>

\* the step takes a signal from the signal queue
SignalTaken == signals # <<>> /\ signals' = Tail(signals)

\* C13: while the loop sleeps with a signal in the queue, the signal can be
\* taken at once, whatever is left of the sleep, and taking it ends the sleep
\* and starts the next cycle at its first step.
C13_SleepInterruptible ==
    /\ [](pollPc = "sleep" /\ signals # <<>> => ENABLED RecvSignal)
    /\ [][SignalTaken => pollPc = "sleep" /\ pollPc' = "load_peers" /\ sleep_secs' = 0]_vars

\* C13 witness: a reset signal was taken during a sleep that could not have
\* elapsed yet, and the next cycle is starting
C13_Witness ==
    /\ nresets = 1 /\ signals = <<>>
    /\ pollPc = "load_peers"
    /\ ~QueuesDrained
    /\ \E s \in SessionIds : evq[s] # <<>> /\ evq[s][Len(evq[s])] = PollingInterval(FAST_MIN)

\* C14: the adaptive interval stays between its minimum and its maximum, and
\* it changes only to the minimum (reset) or to the smaller of its double and
\* the maximum (increase).
C14_IntervalWithinBounds ==
    /\ [](FAST_MIN <= fast_interval /\ fast_interval <= FAST_MAX)
    /\ [](reset(fast_interval) = FAST_MIN /\ increase(fast_interval) = Min(2 * fast_interval, FAST_MAX))
    /\ [][\/ fast_interval' = FAST_MIN
          \/ fast_interval' = Min(2 * fast_interval, FAST_MAX)
          \/ fast_interval' = fast_interval]_vars

\* C14 witness: the interval was increased and then reset by a signal, the
\* two values pushed to the session one after the other
C14_Witness ==
    /\ fast_interval = FAST_MIN
    /\ \E s \in SessionIds : \E k \in 1..(Len(evq[s]) - 1) :
          evq[s][k] = PollingInterval(10) /\ evq[s][k + 1] = PollingInterval(FAST_MIN)

\* the interval after n calls of increase()
RECURSIVE Increased(_, _)
Increased(current, n) == IF n = 0 THEN current ELSE increase(Increased(current, n - 1))

\* C15: from 5, with maximum 60, increase() yields 10, 20, 40, 60 and then 60
\* again and again, reset() yields 5 after any number of increases, and the
\* interval of the poll loop takes no other value.
C15_IncreaseSequence ==
    /\ <<Increased(5, 1), Increased(5, 2), Increased(5, 3), Increased(5, 4)>> = <<10, 20, 40, 60>>
    /\ \A n \in 5..8 : Increased(5, n) = 60
    /\ \A n \in 0..8 : reset(Increased(5, n)) = 5
    /\ fast_interval \in {5, 10, 20, 40, 60}

\* C15 witness: the poll loop has increased its interval four times or more and
\* sleeps for 60 seconds with a session attached
C15_Witness ==
    tui_connected /\ pollPc = "sleep" /\ fast_interval = 60 /\ sleep_secs = 60 /\ slot # NoSession

\* the step is an ImportContact of contact c on session s, under any outcome
\* of its file operations
ImportStep(s, c) == \E io \in ImportIo : CmdImportContact(s, c, io)

\* conversation_id(local encrypt_pk hex, peer.encrypt_pk), as the other party
\* derives it from the exported contact of the local identity
ConversationId(peer) == generate_conversation_queue_id(MyEncryptPkHex, peer.encrypt_pk)

\* C16: every ImportContact that is answered with ContactImported stores a
\* Peer whose queue_id is the conversation id of the local encrypt_pk and the
\* peer's encrypt_pk, in whatever state the agent is when the command arrives.
C16_ImportedQueueId ==
    [][\A s \in SessionIds, c \in Contacts :
          ImportStep(s, c) /\ replyq'[s][1].type = "ContactImported" =>
              \E k \in DOMAIN registry' :
                  /\ registry'[k] = replyq'[s][1].peer
                  /\ registry'[k].encrypt_pk = c.encrypt_pk
                  /\ registry'[k].queue_id = ConversationId(registry'[k])]_vars

\* the contact is one that ImportContact has to reject
Rejected(reg, c) ==
    \/ ~c.parses
    \/ "none" \in {c.name, c.encrypt_pk, c.sign_pk}
    \/ ~IsHex(c.encrypt_pk) \/ ~IsHex(c.sign_pk)
    \/ c.encrypt_pk = MyEncryptPkHex
    \/ \E k \in DOMAIN reg : reg[k].encrypt_pk = c.encrypt_pk

\* C17: an ImportContact whose JSON does not parse, that lacks a field, whose
\* keys are not hex, that carries the local identity's own encrypt_pk or the
\* encrypt_pk of a peer of the registry is answered with Error and leaves the
\* registry unchanged; no two peers of the registry share an encrypt_pk and
\* none carries the local identity's encrypt_pk.
C17_ImportRejects ==
    /\ [][\A s \in SessionIds, c \in Contacts :
             ImportStep(s, c) /\ Rejected(registry, c) =>
                 replyq'[s][1].type = "Error" /\ registry' = registry]_vars
    /\ [](\A k \in DOMAIN registry :
             /\ registry[k].encrypt_pk # MyEncryptPkHex
             /\ \A j \in DOMAIN registry : registry[j].encrypt_pk = registry[k].encrypt_pk => j = k)

\* the identity could not be loaded at startup
IdentityMissing == pollPc # "load_keypair" /\ keypair = "none"

\* what the commands are answered with on session s while there is no identity
AnsweredWithoutIdentity(s) ==
    /\ (\E q \in PeerQueues, pk \in PeerKeys, saved \in BOOLEAN : CmdSendMessage(s, q, pk, saved))
          => replyq'[s] = <<Error("Keypair not loaded")>> /\ messages' = messages /\ sendTask' = sendTask
    /\ (\E written \in BOOLEAN : CmdExportContact(s, "me", written))
          => replyq'[s] = <<Error("Keypair not loaded")>> /\ disk' = disk
    /\ CmdLoadPeers(s, TRUE) => replyq'[s] = <<Peers(registry)>>
    /\ \A q \in PeerQueues :
          CmdLoadMessages(s, q, TRUE) => replyq'[s] = <<Messages(q, load_messages_for_queue(messages, q))>>

\* C18: when the identity cannot be loaded at startup the poll loop is
\* disabled for good, no fetch and no delete is issued to the relay, the accept
\* loop still takes connections, SendMessage and ExportContact are answered
\* with Error, and LoadPeers and LoadMessages are still taken and answered.
C18_NoIdentity ==
    /\ [](IdentityMissing =>
             /\ pollPc = "disabled"
             /\ ~ENABLED (\E ok \in BOOLEAN : Fetch(ok))
             /\ ~ENABLED (\E ok \in BOOLEAN : DeleteBlob(ok))
             /\ acceptPc = "accept" /\ NewEvent => ENABLED AcceptSignal
             /\ \A s \in SessionIds : sessPc[s] = "select" =>
                   /\ ENABLED CmdLoadPeers(s, TRUE)
                   /\ \A q \in PeerQueues : ENABLED CmdLoadMessages(s, q, TRUE))
    /\ [][IdentityMissing =>
             /\ IdentityMissing'
             /\ \A b \in BlobIds : blobLog'[b].opened = blobLog[b].opened /\ blobLog'[b].delreq = blobLog[b].delreq
             /\ \A q \in QueueIds : Len(relay'[q]) >= Len(relay[q])
             /\ \A s \in SessionIds : AnsweredWithoutIdentity(s)]_vars

\* C18 witness: without an identity a SendMessage was refused and a LoadPeers
\* on the same session is answered with the registry
C18_Witness ==
    /\ IdentityMissing /\ pollPc = "disabled"
    /\ Len(cmdLog) = 2 /\ cmdLog[1].type = "SendMessage" /\ cmdLog[2].type = "LoadPeers"
    /\ messages = <<>>
    /\ replyq[cmdLog[2].sess] = <<Peers(registry)>>

\* the step takes a line that does not parse
BadLineStep == cmdLog' # cmdLog /\ cmdLog'[Len(cmdLog')].type = "Malformed"

\* the task of session s, at its select, takes whatever command comes next
TakesCommands(s) ==
    /\ ENABLED CmdResetPollingInterval(s)
    /\ ENABLED CmdLoadPeers(s, TRUE)
    /\ ENABLED CmdUpdateConfig(s, TRUE)
    /\ ENABLED CmdImportContact(s, NewContact, "ok")
    /\ ENABLED CmdExportContact(s, "me", TRUE)
    /\ \A q \in PeerQueues : ENABLED CmdLoadMessages(s, q, TRUE)
    /\ nsends < MaxEvents => \A q \in PeerQueues : ENABLED CmdSendMessage(s, q, "a1", TRUE)

\* C19: a line that does not parse as a Command queues no Event, changes no
\* state of the agent and leaves the session at its select, and for as long
\* as the session stays there every command that follows is taken.
C19_BadLineSkipped ==
    /\ [][BadLineStep =>
             /\ UNCHANGED <<pollVars, ipcVars, storeVars, sendTask, relay, slot, signals, blobLog, faults, mainVars>>
             /\ sessPc'[cmdLog'[Len(cmdLog')].sess] = "select"]_vars
    /\ [](\A s \in SessionIds :
             /\ cmdLog # <<>>
             /\ cmdLog[Len(cmdLog)] = [type |-> "Malformed", sess |-> s]
             /\ sessPc[s] = "select"
             => TakesCommands(s))

\* C19 witness: a LoadPeers that followed a malformed line on the same session
\* is answered
C19_Witness ==
    /\ Len(cmdLog) = 2 /\ cmdLog[1].type = "Malformed" /\ cmdLog[2].type = "LoadPeers"
    /\ cmdLog[1].sess = cmdLog[2].sess
    /\ replyq[cmdLog[2].sess] = <<Peers(registry)>>

\* the texts of the round trip: empty, plain, and one that looks like JSON
Plaintexts == {"", "hi", "{\"content\":\"x\"}"}

\* what b's process_message makes of the envelope a's send path built for b
RoundTrip(a, b, plaintext) ==
    process_message([id |-> 1, env |-> encoded(a, EncryptPkHex(b), plaintext).val], Peer1.queue_id, b)

\* what the peer's process_message makes of the envelope of the i-th SendMessage
OpenedByPeer(i) ==
    process_message([id |-> MaxEvents + i, env |-> sendTask[i].encoded], sendTask[i].queue_id, "peer")

\* the round trip over the texts and the pairs of distinct identities
RoundTrips ==
    \A a \in Identities, b \in Identities, plaintext \in Plaintexts :
        a # b =>
            /\ encoded(a, EncryptPkHex(b), plaintext).ok
            /\ RoundTrip(a, b, plaintext).tag = "ok"
            /\ RoundTrip(a, b, plaintext).msg.content = plaintext
            /\ RoundTrip(a, b, plaintext).msg.sender = EncryptPkHex(a)

\* C20: for every text and every two distinct identities a and b, the send
\* path of a builds an envelope for b that b's process_message opens without
\* error as a Message with that text, sent by a; and every envelope the local
\* send path has built opens at the peer as the text of the row saved for it.
C20_EnvelopeRoundTrip ==
    /\ [][sendTask' # sendTask => RoundTrips]_vars
    /\ [](\A i \in SendIds :
             sendTask[i].st # "none" =>
                 /\ OpenedByPeer(i).tag = "ok"
                 /\ Len(RowsWithId(messages, LocalId(i))) = 1
                 /\ OpenedByPeer(i).msg.content = RowsWithId(messages, LocalId(i))[1].content)

\* C20 witness: the envelope of a SendMessage is in the relay, where the peer
\* will fetch it
C20_Witness ==
    \E i \in SendIds :
        /\ sendTask[i].st = "posted"
        /\ InRelay(MaxEvents + i)
        /\ PostedBlob(MaxEvents + i).env = sendTask[i].encoded
        /\ OpenedByPeer(i).tag = "ok"

\* the hex texts the order of strings is modelled for
HexTexts == {"", "a1", "a2", "b1", "b2", "c0", "c9", "d1", "d2"}

\* the smaller and the larger of two texts
Smaller(p1, p2) == IF HexRank(p2) < HexRank(p1) THEN p2 ELSE p1

Larger(p1, p2) == IF HexRank(p2) < HexRank(p1) THEN p1 ELSE p2

\* the id the peer derives for the conversation with the local identity: its
\* own key first, the key of the contact it imported second
DerivedByPeer(peer, my_pk) == generate_conversation_queue_id(peer.encrypt_pk, my_pk)

\* the id over every two hex texts: the same in both orders of the
\* arguments, and the (symbolic) hash of the smaller text followed by the larger
QueueIdSymmetric ==
    \A p1 \in HexTexts, p2 \in HexTexts :
        /\ generate_conversation_queue_id(p1, p2) = generate_conversation_queue_id(p2, p1)
        /\ generate_conversation_queue_id(p1, p2) = Smaller(p1, p2) \o Larger(p1, p2)

\* C21: for every two hex texts the conversation id is the same in both
\* orders of the arguments and is the hash of the smaller text followed by
\* the larger one; the queue id of every peer of the registry is the id that
\* peer derives with the arguments the other way round.
C21_QueueIdSymmetric ==
    /\ [][registry' # registry => QueueIdSymmetric]_vars
    /\ [](\A k \in DOMAIN registry :
             \E my_pk \in {my_pk_hex("none"), my_pk_hex(Me)} :
                 registry[k].queue_id = DerivedByPeer(registry[k], my_pk))

\* C21 witness: the registry holds a peer whose key is smaller than the local
\* one and an imported peer whose key is larger
C21_Witness ==
    \E j \in DOMAIN registry, k \in DOMAIN registry :
        /\ HexRank(registry[j].encrypt_pk) < HexRank(MyEncryptPkHex)
        /\ HexRank(MyEncryptPkHex) < HexRank(registry[k].encrypt_pk)
        /\ registry[j].queue_id = registry[j].encrypt_pk \o MyEncryptPkHex
        /\ registry[k].queue_id = MyEncryptPkHex \o registry[k].encrypt_pk
        /\ k > 2

\* the fields of the claim: the signature and the sealed body
TamperedFields == {SignatureField, NonceField, BoxField}

\* the failures of the claim
TamperFailures == {"Signature verification failed", "Decryption failed"}

\* what b's process_message makes of the envelope a's send path built for b,
\* after bits of its k-th field were changed
OpenedTampered(a, b, plaintext, k) ==
    process_message([id |-> 1, env |-> Tampered(encoded(a, EncryptPkHex(b), plaintext).val, k)],
                    Peer1.queue_id, b)

\* what a sealed for b, under b's key: with and without the sender's key in
\* front, as decrypt_message and process_message take it
SealedFor(a, b, plaintext) ==
    encrypt_message(ToVec(Payload(plaintext, EncryptPkHex(a))), Keypair(b).encrypt_pk, Keypair(a).encrypt_sk).val

\* every valid envelope, with bits of its signature, nonce or box changed,
\* fails to open with one of the two failures; so do the two primitives
TamperDetected ==
    \A a \in Identities, b \in Identities, plaintext \in Plaintexts :
        a # b =>
            /\ RoundTrip(a, b, plaintext).tag = "ok"
            /\ \A k \in TamperedFields :
                  /\ OpenedTampered(a, b, plaintext, k).tag = "err"
                  /\ OpenedTampered(a, b, plaintext, k).why \in TamperFailures
            /\ decrypt_message(SealedFor(a, b, plaintext), Keypair(a).encrypt_pk, Keypair(b).encrypt_sk).ok
            /\ \A k \in 1..2 :
                  decrypt_message(FlipBits(SealedFor(a, b, plaintext), k), Keypair(a).encrypt_pk, Keypair(b).encrypt_sk)
                      = Err("Decryption failed")
            /\ LET signed == sign_message(SealedFor(a, b, plaintext), Keypair(a).sign_sk).val
               IN /\ verify_signature(signed, Keypair(a).sign_pk) = Ok(SealedFor(a, b, plaintext))
                  /\ \A k \in 1..3 :
                        verify_signature(FlipBits(signed, k), Keypair(a).sign_pk)
                            = Err("Signature verification failed")

\* the blob is a valid envelope for the local identity with bits of its
\* signature or sealed body changed
TamperedBlob(b) ==
    /\ Posted(b)
    /\ \E k \in TamperedFields : blobLog[b].env = Tampered(EnvValid, k)

\* C22: a valid envelope with any bit of its signature or of its sealed body
\* (nonce, ciphertext or tag) changed fails to open with a signature or a
\* decryption failure, and no Message is ever stored for a tampered envelope.
C22_TamperDetected ==
    /\ [][nposts' # nposts => TamperDetected]_vars
    /\ [](\A b \in BlobIds : TamperedBlob(b) =>
             /\ process_message(PostedBlob(b), blobLog[b].queue, Me).tag = "err"
             /\ process_message(PostedBlob(b), blobLog[b].queue, Me).why \in TamperFailures
             /\ blobLog[b].saved = 0
             /\ Len(RowsWithId(messages, BlobRowId(b))) = 0
             /\ blobLog[b].pushed = <<>>)

\* C22 witness: an envelope with a changed signature and one with a changed
\* box have both been processed by a poll cycle
C22_Witness ==
    /\ pollPc = "sleep"
    /\ \E b1 \in BlobIds, b2 \in BlobIds :
          /\ blobLog[b1].opened /\ blobLog[b1].env = Tampered(EnvValid, SignatureField)
          /\ blobLog[b2].opened /\ blobLog[b2].env = Tampered(EnvValid, BoxField)

\* the step is the end of a poll cycle: poll_all_queues has returned
EndOfCycle == pollPc = "end_cycle" /\ pollPc' = "sleep"

\* the interval the claim asks for after a cycle that found new_count messages
IntervalAfter(current, new_count) ==
    IF new_count > 0 THEN FAST_MIN ELSE Min(2 * current, FAST_MAX)

\* the event queues after ev was queued to the session that holds the slot
QueuedToAttached(ev) ==
    [s \in SessionIds |-> IF s = slot THEN Append(evq[s], ev) ELSE evq[s]]

C24_BackgroundCycleEnd ==
    [][EndOfCycle /\ ~tui_connected =>
          /\ fast_interval' = fast_interval
          /\ evq' = evq
          /\ unread' = unread + total
          /\ total > 0 => tx' = Append(tx, unread') /\ notifications' = Append(notifications, total)
          /\ total = 0 => tx' = tx /\ notifications' = notifications
          /\ sleep_secs' = 60
          /\ ~tui_connected']_vars

\* C24 witness: two background cycles delivered one message each and a third
\* found nothing; the loop sleeps the slow interval
C24_Witness ==
    /\ pollPc = "sleep" /\ ~tui_connected /\ sleep_secs = slow_interval
    /\ tx = <<1, 2>> /\ notifications = <<1, 1>> /\ unread = 2
    /\ fast_interval = FAST_MIN
    /\ \A q \in QueueIds : relay[q] = <<>>

\* the step takes a ResetPollingInterval signal from the signal queue
ResetTaken == SignalTaken /\ Head(signals) = "ResetPollingInterval"

\* C25: taking a ResetPollingInterval signal sets the adaptive interval to its
\* minimum and leaves the mode and the unread counter as they are, in
\* idle-interactive and in background mode.
C25_ResetKeepsMode ==
    [][ResetTaken =>
          /\ fast_interval' = FAST_MIN
          /\ tui_connected' = tui_connected
          /\ unread' = unread
          /\ UNCHANGED mainVars]_vars

\* C25 witness: a reset was taken in background mode, after an interval that
\* had been increased in idle-interactive mode
C25_Witness ==
    /\ nresets = 1 /\ signals = <<>>
    /\ ~tui_connected
    /\ fast_interval = FAST_MIN
    /\ pollPc = "load_peers"
    /\ \E s \in SessionIds : evq[s] # <<>> /\ evq[s][Len(evq[s])] = PollingInterval(FAST_MIN)

\* the PollingInterval events still queued to session s, oldest first
QueuedIntervals(s) == SelectSeq(evq[s], LAMBDA ev : ev.type = "PollingInterval")

\* the engine sleeps in idle-interactive mode, session s holds the slot and is
\* past its accept, and every signal is consumed
SleepingAttached(s) ==
    /\ pollPc = "sleep" /\ tui_connected
    /\ slot = s /\ acceptPc = "accept" /\ Live(s)
    /\ signals = <<>>

\* C26: whenever the engine sleeps in idle-interactive mode with a session
\* attached and every signal consumed, the PollingInterval event queued last
\* to that session carries the number of seconds the engine sleeps for.
C26_IntervalMirrored ==
    \A s \in SessionIds :
        SleepingAttached(s) /\ QueuedIntervals(s) # <<>> =>
            QueuedIntervals(s)[Len(QueuedIntervals(s))].secs = sleep_secs

\* no signal is pending and no session is in the middle of its accept or of
\* its teardown
Quiescent ==
    /\ signals = <<>>
    /\ acceptPc = "accept"
    /\ \A s \in SessionIds : sessPc[s] \notin {"clear_slot", "signal_detach"}

\* C27: at quiescence the engine is in idle-interactive mode if and only if
\* the sender slot holds a sender, if and only if a live session is connected.
C27_ModeAgreesWithAttachment ==
    Quiescent =>
        /\ tui_connected <=> slot # NoSession
        /\ slot # NoSession <=> \E s \in SessionIds : Live(s)

\* every peer of reg is a peer of reg2, with the same name, keys and queue id
Kept(reg, reg2) == \A k \in DOMAIN reg : \E j \in DOMAIN reg2 : reg2[j] = reg[k]

\* C28: an ImportContact that is answered with ContactImported adds exactly
\* one Peer to the registry and leaves every peer that was stored before
\* present and unchanged.
C28_ImportKeepsPeers ==
    [][\A s \in SessionIds, c \in Contacts :
          ImportStep(s, c) /\ replyq'[s][1].type = "ContactImported" =>
              /\ Len(registry') = Len(registry) + 1
              /\ Kept(registry, registry')]_vars

\* the poll loop is inside poll_queue, at a blob of the batch
AtBlob == pollPc \in {"open", "push", "delete"}

\* the blob the poll loop is at, the queue it came from and what it opens to
CurrentBlob == Head(batch)

CurrentQueue == Head(cyclePeers).queue_id

CurrentMessage == process_message(CurrentBlob, CurrentQueue, Me).msg

\* the poll loop moved on from the blob it was at: to the next blob of the
\* batch, or past the last blob to the next peer of the cycle
MovedOn ==
    \/ batch' = Tail(batch) /\ batch' # <<>> /\ cyclePeers' = cyclePeers /\ pollPc' = "open"
    \/ Tail(batch) = <<>> /\ batch' = <<>> /\ cyclePeers' = Tail(cyclePeers)

\* C29: a cycle polls the peers in registry order and processes the blobs of
\* a peer in the order the fetch returned them; a blob that opened is saved to
\* the local store, then pushed as NewMessage to the session in the slot (if
\* any), then deleted from the relay, and only then does the loop move to the
\* next blob.
C29_CycleOrder ==
    /\ [][/\ pollPc = "load_peers" /\ pollPc' = "fetch" => cyclePeers' = registry
          /\ pollPc = "fetch" /\ cyclePeers' # cyclePeers =>
                 cyclePeers' = Tail(cyclePeers) /\ pollPc' = (IF cyclePeers' = <<>> THEN "end_cycle" ELSE "fetch")
          /\ pollPc = "fetch" /\ pollPc' = "open" =>
                 batch' = relay[CurrentQueue] /\ cyclePeers' = cyclePeers
          /\ AtBlob /\ <<batch, cyclePeers>>' # <<batch, cyclePeers>> => MovedOn
          /\ pollPc = "open" /\ pollPc' = "push" =>
                 /\ messages' = save_message(messages, CurrentMessage)
                 /\ UNCHANGED <<evq, relay, batch, cyclePeers>>
          /\ pollPc = "open" /\ MovedOn => UNCHANGED <<messages, evq, relay>>
          /\ pollPc = "push" /\ pollPc' # "push" =>
                 /\ pollPc' = "delete"
                 /\ evq' = SendToSlot(evq, slot, NewMessage(CurrentMessage))
                 /\ UNCHANGED <<messages, relay, batch, cyclePeers>>
          /\ pollPc = "delete" /\ pollPc' # "delete" =>
                 /\ MovedOn
                 /\ blobLog'[CurrentBlob.id].delreq = blobLog[CurrentBlob.id].delreq + 1
                 /\ relay' \in {relay, [relay EXCEPT ![CurrentQueue] = RemoveBlob(@, CurrentBlob.id)]}
                 /\ UNCHANGED <<messages, evq>>]_vars
    /\ [](pollPc \in {"push", "delete"} =>
             /\ blobLog[CurrentBlob.id].saved >= 1
             /\ \E k \in DOMAIN relay[CurrentQueue] : relay[CurrentQueue][k] = CurrentBlob
             /\ \E k \in DOMAIN messages : messages[k] = CurrentMessage)

\* C29 witness: two blobs were fetched from the second peer of the registry;
\* the first was saved and deleted, the second was saved and is about to be
\* deleted
C29_Witness ==
    /\ pollPc = "delete"
    /\ cyclePeers = <<Peer2>>
    /\ registry = <<Peer1, Peer2>>
    /\ CurrentBlob.id = 2
    /\ blobLog[1].saved = 1 /\ blobLog[1].delreq = 1 /\ ~InRelay(1)
    /\ blobLog[2].saved = 1 /\ blobLog[2].delreq = 0 /\ InRelay(2)

\* the step is a step of the poll loop inside a cycle
PollMoved == <<pollPc, cyclePeers, batch>>' # <<pollPc, cyclePeers, batch>>

\* the step is an I/O operation that failed
FailedStep == faults' = faults + 1

\* the poll loop is between the start of a cycle and the sleep that follows it
CycleRunning == pollPc \in {"load_peers", "fetch", "open", "push", "delete", "end_cycle"}

\* poll_all_queues goes to the next peer of the cycle, if there is one
ToNextPeer ==
    /\ cyclePeers' = Tail(cyclePeers)
    /\ pollPc' = IF cyclePeers' = <<>> THEN "end_cycle" ELSE "fetch"

\* C30: a fetch that fails leaves the remaining peers of the cycle to be
\* polled; a blob that does not open, is not saved or is not deleted leaves the
\* remaining blobs of the batch to be processed and the messages counted so
\* far counted; a cycle ends only when no peer is left, and every cycle that
\* started reaches the sleep that follows it.
C30_FailuresIsolated ==
    /\ [][/\ pollPc = "fetch" /\ PollMoved /\ FailedStep =>
                 ToNextPeer /\ total' = total
          /\ AtBlob /\ PollMoved /\ (FailedStep \/ process_message(CurrentBlob, CurrentQueue, Me).tag # "ok") =>
                 IF Tail(batch) # <<>>
                 THEN batch' = Tail(batch) /\ pollPc' = "open" /\ count' = count /\ UNCHANGED <<cyclePeers, total>>
                 ELSE ToNextPeer /\ total' = total + count]_vars
    /\ [](pollPc = "end_cycle" => cyclePeers = <<>> /\ batch = <<>>)
    /\ [](pollPc = "fetch" => cyclePeers # <<>>)
    /\ (CycleRunning ~> pollPc = "sleep")

\* C30 witness: the fetch of the first peer failed and left its blob in the
\* relay unopened; the blob of the second peer was fetched, opened and saved
\* in the same cycle
C30_Witness ==
    /\ pollPc = "push"
    /\ cyclePeers = <<Peer2>>
    /\ faults = 1
    /\ \E b \in BlobIds :
           /\ blobLog[b].queue = Peer1.queue_id
           /\ InRelay(b)
           /\ ~blobLog[b].opened
    /\ blobLog[CurrentBlob.id].saved = 1

\* blob b was posted with an envelope that process_message fails on
RejectedBlob(b) == Posted(b) /\ blobLog[b].env \in RejectedEnvs

\* C31: a blob whose processing fails (base64 decode, too short, signature,
\* decryption or payload parse) is never deleted from the relay, never stored,
\* never counted and never pushed; it stays on the relay, where every later
\* cycle fetches and rejects it again.
C31_RejectedBlobKept ==
    /\ [][pollPc = "open" /\ PollMoved /\ CurrentBlob.env \in RejectedEnvs =>
             /\ process_message(CurrentBlob, CurrentQueue, Me).tag = "err"
             /\ UNCHANGED <<relay, messages, evq, unread>>
             /\ IF Tail(batch) # <<>> THEN count' = count /\ total' = total
                                      ELSE total' = total + count]_vars
    /\ [](\A b \in BlobIds : RejectedBlob(b) =>
             /\ InRelay(b)
             /\ blobLog[b].saved = 0 /\ blobLog[b].delreq = 0 /\ blobLog[b].pushed = <<>>
             /\ RowsWithId(messages, BlobRowId(b)) = <<>>)
    /\ [](pollPc = "end_cycle" /\ (\A b \in BlobIds : Posted(b) => RejectedBlob(b)) => total = 0)

\* C31 witness: a blob that was rejected in an earlier cycle has been fetched
\* again and is about to be rejected again, with a session attached
C31_Witness ==
    /\ pollPc = "open"
    /\ RejectedBlob(CurrentBlob.id)
    /\ blobLog[CurrentBlob.id].opened
    /\ tui_connected /\ slot # NoSession

\* blob b opens to a Message under the local identity and has no row in the
\* local store
Unsaved(b) == ValidPosted(b) /\ RowsWithId(messages, BlobRowId(b)) = <<>>

\* C32: in poll_once of the front-end's PollingService a blob that opened is
\* deleted from the relay, and its NewMessage emitted, only if its Message
\* was saved: a blob whose Message is not in the local store has had no
\* delete request and no event.
C32_FrontDeleteOnlyAfterSave ==
    \A b \in BlobIds : Unsaved(b) => blobLog[b].delreq = 0 /\ blobLog[b].pushed = <<>>

\* the mutexes the poll loop and the control channel share
SharedLocks == {StateLock, SenderLock}

HoldsShared(t) == \E l \in SharedLocks : held[l] = t

Holds(t) == \E l \in Locks : held[l] = t

\* thread t is about to execute a statement of one of the kinds
AtOp(t, ops) == ~Finished(t) /\ Current(t).op \in ops

\* C33: a thread that is about to call the relay holds no mutex, and a thread
\* that holds the IpcState mutex or the sender-slot mutex executes nothing
\* but reads and writes of fields and sends on an unbounded channel until it
\* drops the guard.
C33_NoLockAcrossRelayCall ==
    \A t \in Threads :
        /\ AtOp(t, {"relay"}) => ~Holds(t)
        /\ HoldsShared(t) => AtOp(t, {"field", "send", "unlock"})

\* C33 witness: the poll loop is about to call the relay while the accept
\* loop holds the sender-slot mutex and a connection task the IpcState mutex
C33_Witness ==
    /\ AtOp("poll", {"relay"})
    /\ held[SenderLock] = "accept"
    /\ held[StateLock] = "conn"

\* ------------------------------------------------------------------ C34
SignalTypes == {"TuiConnected", "TuiDisconnected", "ResetPollingInterval"}

\* the mode after the loop handled signal sig in mode connected
ModeSetBy(sig, connected) ==
    CASE sig = "TuiConnected" -> TRUE
      [] sig = "TuiDisconnected" -> FALSE
      [] OTHER -> connected

\* the mode the last TuiConnected or TuiDisconnected signal of queue q asks
\* for, and mode connected when q holds neither
RECURSIVE FinalMode(_, _)
FinalMode(q, connected) ==
    IF q = <<>> THEN connected ELSE FinalMode(Tail(q), ModeSetBy(Head(q), connected))

\* the step changes the signal channel
SignalsMoved == signals' # signals

PushedToSession == pollPc = "push" /\ pollPc' = "delete" /\ evq' # evq

\* C35: a blob whose NewMessage event is queued to a session is saved and
\* counted in a cycle run in idle-interactive mode: the cycle that counts it
\* does not add it to the unread counter and does not notify the user of it.
C35_PushedNotCounted == [][PushedToSession => tui_connected]_vars

\* ------------------------------------------------------------------ C36
\* the blobs the poll loop has saved, and so counted, at least once
CountedBlobs == {b \in BlobIds : blobLog[b].saved > 0}

\* C36: the unread counter never exceeds the number of distinct blobs the
\* loop has counted: a blob fetched again after a failed delete is not
\* counted again.
C36_CountedOnce == unread <= Cardinality(CountedBlobs)

\* ------------------------------------------------------------------ C37
\* the step takes a TuiConnected signal from the signal queue
ConnectedTaken == SignalTaken /\ Head(signals) = "TuiConnected"

\* C37: in idle-interactive mode the unread counter is 0; the counter changes
\* only at the end of a cycle run in background mode, by the cycle's
\* new_count, and when a TuiConnected signal is taken, to 0.
C37_IdleUnreadZero ==
    /\ [](tui_connected => unread = 0)
    /\ [][unread' # unread =>
             \/ EndOfCycle /\ ~tui_connected /\ unread' = unread + total
             \/ ConnectedTaken /\ unread' = 0]_vars

\* C37 witness: background cycles had counted a message when a session
\* attached; the loop is in idle-interactive mode and the counter is cleared
C37_Witness ==
    /\ tui_connected /\ unread = 0
    /\ Len(tx) >= 2 /\ tx[1] > 0 /\ tx[Len(tx)] = 0

\* ------------------------------------------------------------------ C38
\* the step takes a signal that resets the adaptive interval
ResettingTaken == ConnectedTaken \/ ResetTaken

\* C38: a cycle run in idle-interactive mode is followed by a sleep of the
\* minimum interval only when it found new messages. A TuiConnected or
\* ResetPollingInterval signal sets the interval to the minimum; the interval
\* then stays as it is until the cycle the signal started ends, and that
\* cycle, when it finds nothing in idle-interactive mode, doubles it: the
\* sleep that follows lasts 10 seconds.
C38_MinimumSleepOnlyAfterMessages ==
    /\ [][EndOfCycle /\ tui_connected /\ sleep_secs' = FAST_MIN => total > 0]_vars
    /\ [][ResettingTaken => fast_interval' = FAST_MIN /\ pollPc' = "load_peers"]_vars
    /\ [][fast_interval' # fast_interval => EndOfCycle \/ SignalTaken]_vars
    /\ [][EndOfCycle /\ tui_connected /\ fast_interval = FAST_MIN /\ total = 0 =>
             fast_interval' = 2 * FAST_MIN /\ sleep_secs' = 10]_vars
    /\ [](pollPc = "sleep" /\ tui_connected => sleep_secs = fast_interval)

\* C38 witness: a reset was taken in idle-interactive mode, the cycle it
\* started found nothing, and the loop sleeps 10 seconds: the session was
\* told 5 and then 10
C38_Witness ==
    /\ pollPc = "sleep" /\ tui_connected /\ sleep_secs = 10
    /\ nresets = 1 /\ signals = <<>>
    /\ \E s \in SessionIds :
          /\ Len(evq[s]) >= 2
          /\ evq[s][Len(evq[s]) - 1] = PollingInterval(FAST_MIN)
          /\ evq[s][Len(evq[s])] = PollingInterval(2 * FAST_MIN)

\* ------------------------------------------------------------------ C39
\* the step handles a SendMessage and answers it with Error
SendFailed ==
    /\ cmdLog' # cmdLog
    /\ LET e == cmdLog'[Len(cmdLog')]
       IN /\ e.type = "SendMessage"
          /\ replyq'[e.sess] # <<>> /\ replyq'[e.sess][1].type = "Error"

\* the blobs the post of the i-th SendMessage has left in the relay
PostedBySend(i) == {q \in QueueIds : \E k \in DOMAIN relay[q] : relay[q][k].id = MaxEvents + i}

\* the i-th SendMessage was handled and no post was spawned for it
Unsent(i) == i <= nsends /\ sendTask[i].st = "none"

\* C39: a SendMessage answered with Error leaves the store, the relay and the
\* send tasks as they were; no Message of it is in the store and no post of
\* it is spawned or reaches the relay, then or later.
C39_FailedSendChangesNothing ==
    /\ [][SendFailed =>
             /\ messages' = messages /\ relay' = relay /\ sendTask' = sendTask
             /\ sendTask[nsends'].st = "none"
             /\ UNCHANGED <<storeVars, signals, slot>>]_vars
    /\ [][\A i \in SendIds : Unsent(i) => sendTask'[i].st = "none"]_vars
    /\ [](\A i \in SendIds : Unsent(i) => RowOf(i) = <<>> /\ PostedBySend(i) = {})

\* C39 witness: the first SendMessage of a session failed at its save and was
\* answered with Error; the second was posted; the store holds the row of the
\* second only
C39_Witness ==
    /\ nsends = 2 /\ faults = 1
    /\ cmdLog[1].type = "SendMessage" /\ cmdLog[2].type = "SendMessage"
    /\ Unsent(1) /\ RowOf(1) = <<>>
    /\ sendTask[2].st = "posted" /\ Len(messages) = 1
    /\ PostedBySend(2) # {}

\* ------------------------------------------------------------------ C40
\* the step handles an UpdateConfig
UpdateConfigHandled == cmdLog' # cmdLog /\ cmdLog'[Len(cmdLog')].type = "UpdateConfig"

\* the step builds the MailboxClient of the poll loop
ClientBuilt == client_url = "none" /\ client_url' # "none"

====
